---- MODULE Spec2Model ----
(***************************************************************************)
(* Streaming server of mock-market-dashboard: the event bus, the replay    *)
(* engine, the wire codec, the gateway and the client hook, modelled from  *)
(* the TypeScript sources.  One state machine per component group:         *)
(*   SpecBus      the event bus with arbitrary subscribers                 *)
(*   SpecReplay   the replay engine publishing on the bus                  *)
(*   SpecCodec    messages encoded, put on the wire and decoded            *)
(*   SpecMetrics  the metrics calculator                                   *)
(*   SpecGateway  the gateway with its connections                         *)
(*   SpecBatching the gateway's batching with timeouts that fire           *)
(*   SpecRestart  a gateway started and stopped more than once             *)
(*   SpecServer   the orchestrator: gateway, replay and shutdown           *)
(*   SpecFeed     the gateway's messages as the client hook receives them  *)
(*   SpecClient   the client hook's connection and reconnects              *)
(* Every action is one handler of the single-threaded event loop, run to   *)
(* completion.                                                             *)
(***************************************************************************)
EXTENDS Integers, Naturals, Sequences, FiniteSets, TLC

(***************************************************************************)
(* Bounds of the model.                                                    *)
(***************************************************************************)
MaxListeners == 2      \* listeners registered per event kind on the bus alone
MaxLen == 3            \* rows of a loaded dataset
MaxDate == 2           \* distinct trading dates of a dataset: 1..MaxDate
MaxPublished == 8      \* timer firings recorded since the last successful start
MaxBatch == 2          \* ticks of a batch handed to the codec
MaxClients == 2        \* connections accepted by the gateway
MaxWindow == 3         \* ticks added to an empty metrics window
MaxOverflow == 1       \* ticks added to a full metrics window or recent-tick buffer
MaxGwTicks == 11       \* tick events handled by the gateway
MaxFeedTicks == 5      \* tick events of the feed followed to the client's tick list
MaxSockets == 2        \* WebSockets of the client hook that are not closed yet
MaxTimers == 2         \* reconnect timeouts of the client hook pending at a time
MaxStarts == 2         \* calls of the gateway's start() that open a listener
MaxStops == 1          \* calls of the gateway's stop() waiting for the listener to close

(***************************************************************************)
(* Values shared by the components.                                        *)
(***************************************************************************)
Kinds == {"tick", "metrics", "error", "replay", "connection"}
BusKinds == {"tick", "error"}   \* the kinds exercised on the bus alone

\* a subscriber: what it does when called
Handler == [id : 1..2, raises : BOOLEAN]

Payloads == 1..2

NoDate == 0 - 1        \* an absent startDate / endDate of ReplayConfig
Epoch == 0             \* new Date(0)
Now == MaxDate + 1     \* new Date(): later than every archived trading date

\* a tick of the replay engine: trading date and a close price that tells
\* rows of the same date apart
ReplayTick == [date : 1..MaxDate, close : 1..MaxLen]

RECURSIVE SeqsUpTo(_, _)
SeqsUpTo(S, n) ==
  IF n = 0 THEN {<<>>}
  ELSE LET shorter == SeqsUpTo(S, n - 1)
       IN shorter \cup {Append(s, x) : s \in {t \in shorter : Len(t) = n - 1}, x \in S}

VARIABLES
  listeners,        \* EventEmitter: kind -> listeners in registration order
  lastEmit,         \* the last publish made through the bus and who received it
  ticks,            \* DataReplay.ticks
  currentIndex,     \* DataReplay.currentIndex
  intervalId,       \* DataReplay.intervalId is non-null
  isPlaying,        \* DataReplay.isPlaying
  isPaused,         \* DataReplay.isPaused
  speedMultiplier,  \* DataReplay.speedMultiplier
  loop,             \* DataReplay.loop
  timers,           \* interval timers alive in the event loop
  published,        \* what the timer firings published since the last successful start
  undisturbed,      \* no load/start/stop/seekTo call since the last successful start
  startedLoop,      \* loop flag passed to the start still undisturbed, else FALSE
  lastOp,           \* the operation that made the last step, and its outcome
  source,           \* codec: what was encoded (a tick, a batch) or injected
  wire,             \* codec: the text on the wire
  decoded,          \* codec: what the server's and the client's decoder returned
  wss,              \* WSGateway.wss is non-null
  clients,          \* WSGateway.clients: the ids of the live set, in insertion order
  clientIdCounter,  \* WSGateway.clientIdCounter
  sockets,          \* readyState of each connection's WebSocket
  recentTicks,      \* WSGateway.recentTicks
  mcTicks,          \* MetricsCalculator.ticks of the gateway's calculator
  tickBuffer,       \* WSGateway.tickBuffer
  batchTimeout,     \* WSGateway.batchTimeout is non-null
  batchTimers,      \* batch timeouts pending in the event loop
  gwReceived,       \* tick events handled so far; the n-th tick is named n
  pruned,           \* connections a broadcast pass has removed from the live set
  sent,             \* what the last step sent: broadcast passes and direct sends
  metrics,          \* the MarketMetrics the calculator returned last
  added,            \* ticks given to addTick since construction or the last reset()
  wssClosing,       \* wss.close() was called and its callback has not run yet
  stopPending,      \* promises returned by WSGateway.stop() and not resolved yet
  isShuttingDown,   \* MarketDataServer.isShuttingDown
  running,          \* setupGracefulShutdown() has installed the signal handlers
  exited,           \* process.exit() was called
  hookPhase,        \* the component of useWebSocket: "new", "mounted" or "unmounted"
  enabled,          \* the argument of useWebSocket in the last render
  isMountedRef,     \* isMountedRef.current
  wsRef,            \* wsRef.current: a WebSocket of the hook, or NoSocket
  webSockets,       \* the WebSockets of the hook that are not closed: readyState,
                    \* and enabled as the handlers of the socket captured it
  reconnectTimeoutRef,  \* reconnectTimeoutRef.current: NoTimer, a pending timeout
                    \* ("pending") or one that has fired ("fired")
  reconnectTimers,  \* reconnect timeouts pending in the browser
  reconnectAttempts,    \* reconnectAttempts.current
  hookError,        \* the hook's error state
  isConnected,      \* the hook's isConnected state
  clientTicks,      \* the hook's ticks state, for the hook connected as connection 1
  feedReceived      \* the ticks sent to connection 1, in the order sent

busVars == <<listeners, lastEmit>>
replayFields == <<ticks, currentIndex, intervalId, isPlaying, isPaused, speedMultiplier, loop, timers>>
replayGhost == <<published, undisturbed, startedLoop>>
codecVars == <<source, wire, decoded>>
gwFields == <<wss, clients, clientIdCounter, sockets, recentTicks, mcTicks, tickBuffer,
              batchTimeout, batchTimers>>
gwGhost == <<gwReceived, pruned, sent>>
gwStopVars == <<wssClosing, stopPending>>
gwVars == <<gwFields, gwGhost, gwStopVars>>
metricsVars == <<metrics, added>>
serverVars == <<isShuttingDown, running, exited>>
hookVars == <<hookPhase, enabled, isMountedRef, wsRef, webSockets, reconnectTimeoutRef,
              reconnectTimers, reconnectAttempts, hookError, isConnected>>
feedVars == <<clientTicks, feedReceived>>
clientVars == <<hookVars, feedVars>>
vars == <<listeners, lastEmit, ticks, currentIndex, intervalId, isPlaying, isPaused,
          speedMultiplier, loop, timers, published, undisturbed, startedLoop, lastOp,
          source, wire, decoded, wss, clients, clientIdCounter, sockets, recentTicks,
          mcTicks, tickBuffer, batchTimeout, batchTimers, gwReceived, pruned, sent,
          metrics, added, wssClosing, stopPending, isShuttingDown, running, exited,
          hookPhase, enabled, isMountedRef, wsRef, webSockets, reconnectTimeoutRef,
          reconnectTimers, reconnectAttempts, hookError, isConnected, clientTicks, feedReceived>>

(***************************************************************************)
(* Event bus (server/src/bus/eventBus.ts): a node:events EventEmitter.     *)
(***************************************************************************)
\* index of the first listener that raises, 0 when none does
FirstRaising(ls) ==
  IF \E i \in 1..Len(ls) : ls[i].raises
  THEN CHOOSE i \in 1..Len(ls) : ls[i].raises /\ \A j \in 1..(i - 1) : ~ls[j].raises
  ELSE 0

\* emit(event, data) -> super.emit: calls the listeners synchronously in
\* registration order; a listener's exception leaves emit at once; an
\* 'error' event without listener is thrown by the emitter
emit(kind, ls) ==
  IF ls = <<>>
  THEN [received |-> <<>>, threw |-> (kind = "error")]
  ELSE IF FirstRaising(ls) = 0
       THEN [received |-> ls, threw |-> FALSE]
       ELSE [received |-> SubSeq(ls, 1, FirstRaising(ls)), threw |-> TRUE]

NoEmit == [kind |-> "none", payload |-> 0, offered |-> <<>>, received |-> <<>>, threw |-> FALSE]

BusInit ==
  /\ listeners = [k \in Kinds |-> <<>>]
  /\ lastEmit = NoEmit

\* on(event, listener)
on(kind, h) ==
  /\ Len(listeners[kind]) < MaxListeners
  /\ listeners' = [listeners EXCEPT ![kind] = Append(@, h)]
  /\ lastEmit' = NoEmit
  /\ lastOp' = [name |-> "on", result |-> "ok", events |-> <<>>]

\* position of the most recently added occurrence of h, 0 when absent
LastIndexOf(ls, h) ==
  IF \E i \in 1..Len(ls) : ls[i] = h
  THEN CHOOSE i \in 1..Len(ls) : ls[i] = h /\ \A j \in (i + 1)..Len(ls) : ls[j] # h
  ELSE 0

RemoveAt(ls, i) == SubSeq(ls, 1, i - 1) \o SubSeq(ls, i + 1, Len(ls))

\* off(event, listener): removes the most recently added instance
off(kind, h) ==
  /\ LastIndexOf(listeners[kind], h) # 0
  /\ listeners' = [listeners EXCEPT ![kind] = RemoveAt(@, LastIndexOf(@, h))]
  /\ lastEmit' = NoEmit
  /\ lastOp' = [name |-> "off", result |-> "ok", events |-> <<>>]

\* removeAllListeners(event)
removeAllListeners(kind) ==
  /\ listeners[kind] # <<>>
  /\ listeners' = [listeners EXCEPT ![kind] = <<>>]
  /\ lastEmit' = NoEmit
  /\ lastOp' = [name |-> "removeAllListeners", result |-> "ok", events |-> <<>>]

\* a producer calls eventBus.emit(kind, payload)
Publish(kind, payload) ==
  /\ lastEmit' = [kind |-> kind, payload |-> payload, offered |-> listeners[kind],
                  received |-> emit(kind, listeners[kind]).received,
                  threw |-> emit(kind, listeners[kind]).threw]
  /\ lastOp' = [name |-> "publish",
                result |-> IF emit(kind, listeners[kind]).threw THEN "threw" ELSE "ok",
                events |-> <<[kind |-> kind, what |-> "payload"]>>]
  /\ UNCHANGED listeners

(***************************************************************************)
(* Replay engine (server/src/feed/replay.ts).                              *)
(***************************************************************************)
Speeds == {1, 2}

\* ReplayConfig: speedMultiplier ?? 1, loop ?? false, optional date bounds
ReplayConfig == [speedMultiplier : Speeds, loop : BOOLEAN,
                 startDate : {NoDate} \cup (1..MaxDate), endDate : {NoDate} \cup (1..MaxDate)]

\* the parsed rows of one file: any dates in any order; the closes number
\* the rows by date and, within one date, by position in the file
Rows ==
  LET Rank(ds, i) == Cardinality({j \in 1..Len(ds) : ds[j] < ds[i]})
                     + Cardinality({j \in 1..i : ds[j] = ds[i]})
  IN {[i \in 1..Len(ds) |-> [date |-> ds[i], close |-> Rank(ds, i)]] :
        ds \in SeqsUpTo(1..MaxDate, MaxLen)}

Undefined == [date |-> 0, close |-> 0]     \* ticks[i] read past the end

\* the event published by one emit call of the engine
Ev(kind, what) == [kind |-> kind, what |-> what]

\* eventBus.emit('tick', this.ticks[this.currentIndex])
TickEv(idx) == [kind |-> "tick", what |-> "tick", idx |-> idx]

\* insertion of a row behind every row whose date is not later (the
\* comparator dateA - dateB of a stable Array.prototype.sort)
CompareDatesDescending(a, b) == b.date - a.date
compareDates(a, b) == a.date - b.date

RECURSIVE InsertByDate(_, _)
InsertByDate(sorted, t) ==
  IF sorted = <<>> THEN <<t>>
  ELSE IF compareDates(sorted[Len(sorted)], t) <= 0 THEN Append(sorted, t)
       ELSE Append(InsertByDate(SubSeq(sorted, 1, Len(sorted) - 1), t), sorted[Len(sorted)])

RECURSIVE sortTicksByDate(_)
sortTicksByDate(rows) ==
  IF rows = <<>> THEN <<>>
  ELSE InsertByDate(sortTicksByDate(SubSeq(rows, 1, Len(rows) - 1)), rows[Len(rows)])

RECURSIVE FilterSeq(_, _, _)
FilterSeq(s, lo, hi) ==
  IF s = <<>> THEN <<>>
  ELSE IF s[1].date >= lo /\ s[1].date <= hi
       THEN <<s[1]>> \o FilterSeq(Tail(s), lo, hi)
       ELSE FilterSeq(Tail(s), lo, hi)

\* the date filter of start(): applied only when a bound is given
Unfiltered(ts, cfg) == ts
filteredTicks(ts, cfg) ==
  IF cfg.startDate # NoDate \/ cfg.endDate # NoDate
  THEN FilterSeq(ts, IF cfg.startDate # NoDate THEN cfg.startDate ELSE Epoch,
                     IF cfg.endDate # NoDate THEN cfg.endDate ELSE Now)
  ELSE ts

Threw(kind) == emit(kind, listeners[kind]).threw

ReplayInit ==
  /\ ticks = <<>>
  /\ currentIndex = 0
  /\ intervalId = FALSE
  /\ isPlaying = FALSE
  /\ isPaused = FALSE
  /\ speedMultiplier = 1
  /\ loop = FALSE
  /\ timers = 0
  /\ published = <<>>
  /\ undisturbed = FALSE
  /\ startedLoop = FALSE

\* clearInterval(this.intervalId) under "if (this.intervalId)"
TimersNeverCleared == timers
TimersAfterClear == IF intervalId THEN timers - 1 ELSE timers

\* stop(): cancels the timer, clears the flags, publishes 'stopped'
stopEffect ==
  /\ intervalId' = FALSE
  /\ timers' = TimersAfterClear
  /\ isPlaying' = FALSE
  /\ isPaused' = FALSE
  /\ published' = <<>>
  /\ undisturbed' = FALSE
  /\ startedLoop' = FALSE
  /\ UNCHANGED <<ticks, currentIndex, speedMultiplier, loop>>
stop ==
  /\ stopEffect
  /\ lastOp' = [name |-> "stop", result |-> IF Threw("replay") THEN "threw" ELSE "ok",
                events |-> <<Ev("replay", "stopped")>>]

\* loadData(symbol, rows): sorted dataset, cursor 0, then stop()
loadData(rows) ==
  /\ ticks' = sortTicksByDate(rows)
  /\ currentIndex' = 0
  /\ intervalId' = FALSE
  /\ timers' = TimersAfterClear
  /\ isPlaying' = FALSE
  /\ isPaused' = FALSE
  /\ published' = <<>>
  /\ undisturbed' = FALSE
  /\ lastOp' = [name |-> "loadData", result |-> IF Threw("replay") THEN "threw" ELSE "ok",
                events |-> <<Ev("replay", "stopped")>>, rows |-> rows]
  /\ startedLoop' = FALSE
  /\ UNCHANGED <<speedMultiplier, loop>>

\* "this.isPlaying && !this.isPaused"
AlreadyPlayingInverted(playing, paused) == playing /\ paused
alreadyPlaying(playing, paused) == playing /\ ~paused

\* start(config)
start(cfg) ==
  IF Len(ticks) = 0
  THEN \* 'No data loaded for replay'
       /\ lastOp' = [name |-> "start", result |-> IF Threw("error") THEN "threw" ELSE "rejected",
                     events |-> <<Ev("error", "NO_DATA")>>]
       /\ published' = <<>>
       /\ undisturbed' = FALSE
       /\ startedLoop' = FALSE
       /\ UNCHANGED replayFields
  ELSE IF alreadyPlaying(isPlaying, isPaused)
  THEN \* already playing
       /\ lastOp' = [name |-> "start", result |-> "noop", events |-> <<>>]
       /\ published' = <<>>
       /\ undisturbed' = FALSE
       /\ startedLoop' = FALSE
       /\ UNCHANGED replayFields
  ELSE /\ speedMultiplier' = cfg.speedMultiplier
       /\ loop' = cfg.loop
       /\ IF Len(filteredTicks(ticks, cfg)) = 0
          THEN \* 'No data in specified date range'
               /\ lastOp' = [name |-> "start",
                             result |-> IF Threw("error") THEN "threw" ELSE "rejected",
                             events |-> <<Ev("error", "NO_DATA_IN_RANGE")>>]
               /\ published' = <<>>
               /\ undisturbed' = FALSE
               /\ startedLoop' = FALSE
               /\ UNCHANGED <<ticks, currentIndex, intervalId, isPlaying, isPaused, timers>>
          ELSE /\ ticks' = filteredTicks(ticks, cfg)
               /\ currentIndex' = 0
               /\ isPlaying' = TRUE
               /\ isPaused' = FALSE
               /\ published' = <<>>
               /\ startedLoop' = (cfg.loop /\ ~Threw("replay"))
               /\ IF Threw("replay")
                  THEN \* the 'started' listener raised before setInterval
                       /\ UNCHANGED <<intervalId, timers>>
                       /\ undisturbed' = FALSE
                       /\ lastOp' = [name |-> "start", result |-> "threw",
                                     events |-> <<Ev("replay", "started")>>]
                  ELSE /\ intervalId' = TRUE
                       /\ timers' = timers + 1
                       /\ undisturbed' = TRUE
                       /\ lastOp' = [name |-> "start", result |-> "started",
                                     events |-> <<Ev("replay", "started")>>,
                                     wasPaused |-> isPaused,
                                     startDate |-> cfg.startDate, endDate |-> cfg.endDate]

\* what playNextTick reads at the cursor
TickAt(i) == IF i < Len(ticks) THEN ticks[i + 1] ELSE Undefined

Record(e) == IF undisturbed /\ Len(published) < MaxPublished THEN Append(published, e) ELSE published

\* "this.currentIndex >= this.ticks.length"
AtEndOffByOne(i, ts) == i > Len(ts)
AtEnd(i, ts) == i >= Len(ts)

\* the cursor playNextTick publishes from: reset to 0 at the end when looping
CursorSkippingFirst(i, ts) == IF AtEnd(i, ts) THEN 1 ELSE i
CursorToPlay(i, ts) == IF AtEnd(i, ts) THEN 0 ELSE i

\* the interval callback: playNextTick(); its effect on the engine, and
\* what it publishes
playNextTickEffect ==
  /\ timers > 0
  /\ undisturbed => Len(published) < MaxPublished
  /\ IF AtEnd(currentIndex, ticks) /\ ~loop
     THEN \* end of the dataset: stop()
          /\ intervalId' = FALSE
          /\ timers' = TimersAfterClear
          /\ isPlaying' = FALSE
          /\ isPaused' = FALSE
          /\ published' = Record([kind |-> "replay", idx |-> currentIndex, tick |-> Undefined])
          /\ UNCHANGED <<ticks, currentIndex, speedMultiplier, loop, undisturbed, startedLoop>>
     ELSE LET idx == CursorToPlay(currentIndex, ticks)
          IN /\ currentIndex' = IF Threw("tick") THEN idx ELSE idx + 1
             /\ published' = Record([kind |-> "tick", idx |-> idx, tick |-> TickAt(idx)])
             /\ UNCHANGED <<ticks, intervalId, isPlaying, isPaused, speedMultiplier, loop,
                            timers, undisturbed, startedLoop>>
playNextTickOutcome ==
  IF AtEnd(currentIndex, ticks) /\ ~loop
  THEN [name |-> "timer", result |-> IF Threw("replay") THEN "threw" ELSE "ok",
        events |-> <<Ev("replay", "stopped")>>]
  ELSE [name |-> "timer", result |-> IF Threw("tick") THEN "threw" ELSE "ok",
        events |-> <<TickEv(CursorToPlay(currentIndex, ticks))>>]
playNextTick ==
  /\ playNextTickEffect
  /\ lastOp' = playNextTickOutcome

\* ghost of pause()/resume(): the cursor held by the pause() of a playing
\* engine, carried over by the resume() that directly follows it
NoCursor == 0 - 1

\* pause()
pause ==
  /\ intervalId' = FALSE
  /\ timers' = TimersAfterClear
  /\ isPaused' = TRUE
  /\ lastOp' = [name |-> "pause", result |-> IF Threw("replay") THEN "threw" ELSE "ok",
                events |-> <<Ev("replay", "paused")>>,
                cursor |-> IF isPlaying /\ ~isPaused THEN currentIndex ELSE NoCursor]
  /\ UNCHANGED <<ticks, currentIndex, isPlaying, speedMultiplier, loop, replayGhost>>

\* resume()
resume ==
  IF ~isPlaying \/ ~isPaused
  THEN /\ lastOp' = [name |-> "resume", result |-> "noop", events |-> <<>>, cursor |-> NoCursor]
       /\ UNCHANGED <<replayFields, replayGhost>>
  ELSE /\ intervalId' = TRUE
       /\ timers' = timers + 1
       /\ isPaused' = FALSE
       /\ lastOp' = [name |-> "resume", result |-> IF Threw("replay") THEN "threw" ELSE "ok",
                     events |-> <<Ev("replay", "resumed")>>,
                     cursor |-> IF lastOp.name = "pause" THEN lastOp.cursor ELSE NoCursor]
       /\ UNCHANGED <<ticks, currentIndex, isPlaying, speedMultiplier, loop, replayGhost>>

\* "index >= 0 && index < this.ticks.length"
InBoundsInclusive(index, ts) == index >= 0 /\ index <= Len(ts)
InBounds(index, ts) == index >= 0 /\ index < Len(ts)

\* seekTo(index)
seekTo(index) ==
  /\ currentIndex' = IF InBounds(index, ticks) THEN index ELSE currentIndex
  /\ published' = <<>>
  /\ undisturbed' = FALSE
  /\ lastOp' = [name |-> "seekTo", result |-> "ok", events |-> <<>>, index |-> index]
  /\ startedLoop' = FALSE
  /\ UNCHANGED <<ticks, intervalId, isPlaying, isPaused, speedMultiplier, loop, timers>>

(***************************************************************************)
(* Protocol codec (server/src/ws/protocol.ts, and the client's decoder in  *)
(* src/hooks/useWebSocket.ts).  JavaScript values are tagged records;      *)
(* numbers are fixed-point, in units of 1/10000.                           *)
(***************************************************************************)
Unit == 10000                         \* the number 1
Milli == 10                           \* the number 0.001

U == [ty |-> "undef"]                 \* undefined
JNull == [ty |-> "null"]
N(x) == [ty |-> "num", v |-> x]
S(x) == [ty |-> "str", v |-> x]
A(items) == [ty |-> "arr", items |-> items]
\* an object literal with optional members t and d (U: member absent)
O(t, d) == [ty |-> "obj", t |-> t, d |-> d]
Garbage == [ty |-> "garbage"]         \* text that is not JSON

\* Math.round(value * 1000) / 1000, on non-negative values
roundPrice(value) == ((value + (Milli \div 2)) \div Milli) * Milli

\* Math.round(value), on non-negative values
roundVolume(value) == ((value + (Unit \div 2)) \div Unit) * Unit

\* MarketTick; an absent optional member is U
MarketTick(symbol, date, time, open, high, low, close, volume, openInt) ==
  [symbol |-> symbol, date |-> date, time |-> time, open |-> open, high |-> high,
   low |-> low, close |-> close, volume |-> volume, openInt |-> openInt]

\* compactTick(tick): [symbol, date, open, high, low, close, volume, openInt?]
compactTick(tick) ==
  LET result == <<tick.symbol, tick.date, N(roundPrice(tick.open.v)), N(roundPrice(tick.high.v)),
                  N(roundPrice(tick.low.v)), N(roundPrice(tick.close.v)),
                  N(roundVolume(tick.volume.v))>>
  IN IF tick.openInt # U /\ tick.openInt.v > 0
     THEN A(Append(result, N(roundVolume(tick.openInt.v))))
     ELSE A(result)

\* compact[i] of expandTick / expandMetrics: an element, or undefined past
\* the end and on a number; the caller has excluded null
At(compact, i) ==
  IF compact.ty = "arr" /\ i < Len(compact.items) THEN compact.items[i + 1] ELSE U

\* expandTick(compact)
ExpandTickOpenIntFromVolume(compact) ==
  MarketTick(At(compact, 0), At(compact, 1), U, At(compact, 2), At(compact, 3),
             At(compact, 4), At(compact, 5), At(compact, 6), At(compact, 6))
expandTick(compact) ==
  MarketTick(At(compact, 0), At(compact, 1), U, At(compact, 2), At(compact, 3),
             At(compact, 4), At(compact, 5), At(compact, 6), At(compact, 7))

\* expandMetrics(compact)
expandMetrics(compact) ==
  [totalTicks |-> At(compact, 0), totalVolume |-> At(compact, 1), averagePrice |-> At(compact, 2),
   highestPrice |-> At(compact, 3), lowestPrice |-> At(compact, 4), priceChange |-> At(compact, 5),
   priceChangePercent |-> At(compact, 6), lastUpdate |-> At(compact, 7)]

MapSeq(s, Op(_)) == [i \in 1..Len(s) |-> Op(s[i])]

\* JSON.stringify: an undefined array element is written as null
RECURSIVE stringify(_)
stringify(v) ==
  IF v.ty = "arr" THEN A([i \in 1..Len(v.items) |->
                            IF v.items[i] = U THEN JNull ELSE stringify(v.items[i])])
  ELSE IF v.ty = "obj" THEN O(IF v.t = U THEN U ELSE stringify(v.t),
                              IF v.d = U THEN U ELSE stringify(v.d))
  ELSE v

\* createTickMessage(tick)
createTickMessage(tick) == stringify(O(S("t"), compactTick(tick)))

\* createBatchedTickMessage(ticks)
createBatchedTickMessage(ts) == stringify(O(S("t"), A(MapSeq(ts, compactTick))))

\* the decoders' results; a raised TypeError is caught and gives null
Null == [type |-> "null"]
TickResult(t) == [type |-> "tick", single |-> TRUE, data |-> <<t>>]
TicksResult(ts) == [type |-> "tick", single |-> FALSE, data |-> ts]
MetricsResult(m) == [type |-> "metrics", data |-> m]
SnapshotResult(ts) == [type |-> "snapshot", data |-> ts]
ErrorResult(d) == [type |-> "error", data |-> d]

\* "!parsed.t": the member is absent or falsy
Falsy(v) == v = U \/ v = JNull \/ v = N(0) \/ v = S("")

\* expandTick reads members of its argument: null raises
AnyNull(items) == \E i \in 1..Len(items) : items[i] = JNull

\* "Array.isArray(d[0])" of a non-empty array d
FirstIsArrayOrLong(d) == d.items[1].ty = "arr" /\ Len(d.items) > 1
FirstIsArray(d) == d.items[1].ty = "arr"

\* the cases 'm', 's', 'e' and default, the same in both decoders
ParseOther(parsed) ==
  IF parsed.t = S("m")
  THEN IF parsed.d = JNull THEN Null ELSE MetricsResult(expandMetrics(parsed.d))
  ELSE IF parsed.t = S("s")
  THEN IF parsed.d.ty # "arr" \/ AnyNull(parsed.d.items) THEN Null
       ELSE SnapshotResult(MapSeq(parsed.d.items, expandTick))
  ELSE IF parsed.t = S("e") THEN ErrorResult(parsed.d)
  ELSE Null

\* parseMessage(data) of the server's protocol module
parseMessage(data) ==
  IF data = Garbage \/ data.ty # "obj" THEN Null
  ELSE IF Falsy(data.t) \/ data.d = U THEN Null
  ELSE IF data.t = S("t")
  THEN IF data.d.ty # "arr" THEN Null
       ELSE IF Len(data.d.items) > 0 /\ FirstIsArray(data.d)
            THEN IF AnyNull(data.d.items) THEN Null
                 ELSE TicksResult(MapSeq(data.d.items, expandTick))
            ELSE TickResult(expandTick(data.d))
  ELSE ParseOther(data)

\* parseOptimizedMessage(data) of the client
parseOptimizedMessage(data) ==
  IF data = Garbage \/ data.ty # "obj" THEN Null
  ELSE IF Falsy(data.t) \/ data.d = U THEN Null
  ELSE IF data.t = S("t")
  THEN IF data.d.ty # "arr" \/ Len(data.d.items) = 0 THEN Null
       ELSE IF FirstIsArray(data.d)
            THEN IF AnyNull(data.d.items) THEN Null
                 ELSE TicksResult(MapSeq(data.d.items, expandTick))
            ELSE TickResult(expandTick(data.d))
  ELSE ParseOther(data)

\* the ticks handed to the codec: prices with three and with four decimals,
\* with and without intraday time and open interest, whole and fractional
\* volume
CodecTicks ==
  {MarketTick(S("AAPL"), S("2017-11-10"), time, N(open), N(2 * Unit), N(Unit \div 2), N(close),
              N(volume), openInt) :
     time \in {U, S("09:30")}, open \in {Unit, Unit + 5}, close \in {Unit + 5000, Unit + 5004},
     volume \in {3 * Unit, 2 * Unit + 5000}, openInt \in {U, N(0), N(7 * Unit)}}

\* the ticks of batches: the ones with a whole volume and no intraday time
BatchTicks == {t \in CodecTicks : t.time = U /\ t.volume.v % Unit = 0 /\ t.close.v % Milli = 0}

\* a valid tick: integer-valued volume, open interest absent or a positive
\* integer-valued count
ValidTick(t) ==
  /\ t.volume.v % Unit = 0
  /\ t.openInt = U \/ (t.openInt.v > 0 /\ t.openInt.v % Unit = 0)

\* messages that no encoder of the protocol produces
aTick == <<S("AAPL"), S("2017-11-10"), N(Unit), N(2 * Unit), N(Unit \div 2), N(Unit), N(3 * Unit)>>
aMetrics == <<N(2), N(6 * Unit), N(Unit), N(Unit), N(Unit), N(0), N(0), S("2017-11-10T00:00:00Z")>>
RawMessages ==
  {Garbage, JNull, N(5), A(aTick),
   O(U, A(aTick)), O(S(""), A(aTick)), O(S("x"), A(aTick)), O(S("t"), U), O(S("m"), U),
   O(S("t"), JNull), O(S("t"), N(5)), O(S("t"), A(<<>>)), O(S("t"), A(<<S("AAPL")>>)),
   O(S("t"), A(SubSeq(aTick, 1, 6))), O(S("t"), A(<<A(<<>>)>>)),
   O(S("t"), A(<<A(aTick), A(<<S("AAPL")>>)>>)), O(S("t"), A(<<A(aTick), JNull>>)),
   O(S("t"), A(aTick)), O(S("t"), A(<<A(aTick)>>)),
   O(S("m"), JNull), O(S("m"), N(5)), O(S("m"), A(<<>>)), O(S("m"), A(SubSeq(aMetrics, 1, 3))),
   O(S("m"), A(aMetrics)),
   O(S("s"), JNull), O(S("s"), N(5)), O(S("s"), A(<<A(<<S("AAPL")>>)>>)), O(S("s"), A(<<JNull>>)),
   O(S("s"), A(<<A(aTick)>>)), O(S("e"), S("boom"))}

Idle == [kind |-> "none", ticks |-> <<>>]
NotDecoded == [server |-> [type |-> "pending"], client |-> [type |-> "pending"]]

CodecInit ==
  /\ source = Idle
  /\ wire = Garbage
  /\ decoded = NotDecoded

\* the gateway encodes one tick
EncodeTick(t) ==
  /\ source = Idle
  /\ source' = [kind |-> "single", ticks |-> <<t>>]
  /\ wire' = createTickMessage(t)
  /\ decoded' = NotDecoded
  /\ lastOp' = [name |-> "createTickMessage", result |-> "ok", events |-> <<>>]

\* the gateway encodes a batch
EncodeBatch(ts) ==
  /\ source = Idle
  /\ source' = [kind |-> "batch", ticks |-> ts]
  /\ wire' = createBatchedTickMessage(ts)
  /\ decoded' = NotDecoded
  /\ lastOp' = [name |-> "createBatchedTickMessage", result |-> "ok", events |-> <<>>]

\* some other text arrives
Inject(m) ==
  /\ source = Idle
  /\ source' = [kind |-> "raw", ticks |-> <<>>]
  /\ wire' = m
  /\ decoded' = NotDecoded
  /\ lastOp' = [name |-> "inject", result |-> "ok", events |-> <<>>]

\* both decoders read the text
Decode ==
  /\ source # Idle
  /\ decoded = NotDecoded
  /\ decoded' = [server |-> parseMessage(wire), client |-> parseOptimizedMessage(wire)]
  /\ lastOp' = [name |-> "parseMessage", result |-> "ok", events |-> <<>>]
  /\ UNCHANGED <<source, wire>>

\* the next message
NextMessage ==
  /\ decoded # NotDecoded
  /\ source' = Idle
  /\ wire' = Garbage
  /\ decoded' = NotDecoded
  /\ lastOp' = [name |-> "next", result |-> "ok", events |-> <<>>]

(***************************************************************************)
(* Gateway (server/src/ws/wsGateway.ts, batching version).                 *)
(***************************************************************************)
maxRecentTicks == 1000
maxTicks == 10000        \* MetricsCalculator.maxTicks
batchSize == 10

ClientIds == 1..MaxClients

\* tick events the gateway has handled before the first step
ReceivedBefore == {0, maxRecentTicks}

\* the gateway's listeners on the bus
GatewayHandler == [id |-> 2, raises |-> FALSE]

Range(s) == {s[i] : i \in 1..Len(s)}

PrependDroppingNewest(t, window, n) ==
  LET all == <<t>> \o window IN IF Len(all) > n THEN SubSeq(all, 2, n + 1) ELSE all

\* [tick, ...window].slice(0, n)
Prepend(t, window, n) ==
  LET all == <<t>> \o window IN IF Len(all) > n THEN SubSeq(all, 1, n) ELSE all

OldestHundred(buffer) ==
  SubSeq(buffer, IF Len(buffer) > 100 THEN Len(buffer) - 99 ELSE 1, Len(buffer))

\* this.recentTicks.slice(0, 100)
NewestHundred(buffer) == SubSeq(buffer, 1, IF Len(buffer) > 100 THEN 100 ELSE Len(buffer))

NothingSent == [passes |-> <<>>, direct |-> <<>>]

SendToEveryone(c, message) == [i \in 1..Len(clients) |-> [to |-> clients[i], message |-> message]]

\* ws.send(message) on the socket of connection c, outside a broadcast
wsSend(c, message) == <<[to |-> c, message |-> message]>>

GatewayInit ==
  /\ wss = FALSE
  /\ clients = <<>>
  /\ clientIdCounter = 0
  /\ sockets = [c \in ClientIds |-> "NONE"]
  /\ recentTicks = <<>>
  /\ tickBuffer = <<>>
  /\ batchTimeout = FALSE
  /\ batchTimers = 0
  /\ gwReceived = 0
  /\ pruned = {}
  /\ sent = NothingSent
  /\ wssClosing = FALSE
  /\ stopPending = 0

\* the forEach of broadcast(): a connection that is open is sent the message;
\* one whose send raises, or that is not open, is noted as disconnected
RECURSIVE forEachAbortingOnFailure(_, _, _)
forEachAbortingOnFailure(cl, failing, acc) ==
  IF cl = <<>> THEN acc
  ELSE IF sockets[Head(cl)] = "OPEN"
       THEN IF Head(cl) \in failing
            THEN [acc EXCEPT !.disconnected = Append(@, Head(cl))]
            ELSE forEachAbortingOnFailure(Tail(cl), failing,
                                          [acc EXCEPT !.delivered = Append(@, Head(cl))])
       ELSE forEachAbortingOnFailure(Tail(cl), failing,
                                     [acc EXCEPT !.disconnected = Append(@, Head(cl))])
RECURSIVE forEachSend(_, _, _)
forEachSend(cl, failing, acc) ==
  IF cl = <<>> THEN acc
  ELSE IF sockets[Head(cl)] = "OPEN"
       THEN IF Head(cl) \in failing
            THEN forEachSend(Tail(cl), failing, [acc EXCEPT !.disconnected = Append(@, Head(cl))])
            ELSE forEachSend(Tail(cl), failing, [acc EXCEPT !.delivered = Append(@, Head(cl))])
       ELSE forEachSend(Tail(cl), failing, [acc EXCEPT !.disconnected = Append(@, Head(cl))])

\* the clients.delete of each disconnected id
RECURSIVE deleteAll(_, _)
deleteAll(cl, ids) ==
  IF cl = <<>> THEN <<>>
  ELSE IF Head(cl) \in ids THEN deleteAll(Tail(cl), ids)
       ELSE <<Head(cl)>> \o deleteAll(Tail(cl), ids)

\* broadcast(message) over the live set cl, the sends to the connections in
\* failing raising: who got the message and the live set afterwards
broadcast(message, cl, failing) ==
  LET r == forEachSend(cl, failing, [delivered |-> <<>>, disconnected |-> <<>>])
  IN [message |-> message, before |-> cl, failing |-> failing \cap Range(cl),
      delivered |-> r.delivered, after |-> deleteAll(cl, Range(r.disconnected))]

\* the messages of the gateway, by kind tag and content
MetricsMessageBefore(window) == [t |-> "m", d |-> <<Len(window) - 1>>]
BatchWithoutFirst(ts) == [t |-> "t", d |-> Tail(ts)]
MetricsMessage(window) == [t |-> "m", d |-> <<Len(window)>>]
BatchedTickMessage(ts) == [t |-> "t", d |-> ts]
SnapshotMessage(ts) == [t |-> "s", d |-> ts]
ErrorMessage == [t |-> "e", d |-> <<>>]

Subscribed(kind) == \E i \in 1..Len(listeners[kind]) : listeners[kind][i] = GatewayHandler

\* start(port): opens the listener and subscribes to the bus, unless a
\* listener is there
gatewayStart ==
  /\ ~wss
  /\ wss' = TRUE
  /\ listeners' = [k \in Kinds |-> IF k \in {"tick", "metrics", "error"}
                                    THEN Append(listeners[k], GatewayHandler)
                                    ELSE listeners[k]]
  /\ sent' = NothingSent
  /\ lastOp' = [name |-> "gwStart", result |-> "ok", events |-> <<>>]
  /\ UNCHANGED <<clients, clientIdCounter, sockets, recentTicks, mcTicks, tickBuffer,
                 batchTimeout, batchTimers, gwReceived, pruned, lastEmit>>
  /\ UNCHANGED gwStopVars

\* handleConnection(ws): a new id, the snapshot of the last 100 ticks
handleConnection ==
  /\ wss
  /\ ~wssClosing
  /\ clientIdCounter < MaxClients
  /\ clientIdCounter' = clientIdCounter + 1
  /\ clients' = Append(clients, clientIdCounter + 1)
  /\ sockets' = [sockets EXCEPT ![clientIdCounter + 1] = "OPEN"]
  /\ sent' = [passes |-> <<>>,
              direct |-> IF Len(recentTicks) > 0
                         THEN wsSend(clientIdCounter + 1, SnapshotMessage(NewestHundred(recentTicks)))
                         ELSE <<>>]
  /\ lastOp' = [name |-> "gwConnect", result |-> "ok",
                events |-> <<Ev("connection", "connected")>>]
  /\ UNCHANGED <<wss, recentTicks, mcTicks, tickBuffer, batchTimeout, batchTimers,
                 gwReceived, pruned, listeners, lastEmit>>
  /\ UNCHANGED gwStopVars

\* the peer goes away: readyState leaves OPEN, the 'close' event is queued
\* (CLOSED); a socket the gateway has closed is CLOSING until then
socketCloses(c) ==
  /\ sockets[c] = "OPEN"
  /\ sockets' = [sockets EXCEPT ![c] = "CLOSED"]
  /\ sent' = NothingSent
  /\ lastOp' = [name |-> "gwSocketCloses", result |-> "ok", events |-> <<>>]
  /\ UNCHANGED <<wss, clients, clientIdCounter, recentTicks, mcTicks, tickBuffer,
                 batchTimeout, batchTimers, gwReceived, pruned, listeners, lastEmit>>
  /\ UNCHANGED gwStopVars

\* ws.on('close'): the id leaves the live set, 'disconnected' is published
onClose(c) ==
  /\ sockets[c] \in {"CLOSED", "CLOSING"}
  /\ sockets' = [sockets EXCEPT ![c] = "GONE"]
  /\ clients' = deleteAll(clients, {c})
  /\ sent' = NothingSent
  /\ lastOp' = [name |-> "gwOnClose", result |-> "ok",
                events |-> <<Ev("connection", "disconnected")>>]
  /\ UNCHANGED <<wss, clientIdCounter, recentTicks, mcTicks, tickBuffer, batchTimeout,
                 batchTimers, gwReceived, pruned, listeners, lastEmit>>
  /\ UNCHANGED gwStopVars

\* "else if (!this.batchTimeout) this.batchTimeout = setTimeout(...)": the
\* batch timeouts pending afterwards
TimersRearmed(timeout, pending) == pending + 1
TimersNotArmed(timeout, pending) == pending
TimersArmed(timeout, pending) == IF timeout THEN pending ELSE pending + 1

\* "this.tickBuffer.length >= this.batchSize"
BatchOverfull(buffer) == Len(buffer) > batchSize
BatchFull(buffer) == Len(buffer) >= batchSize

\* handleTick(tick), with the metrics listener it triggers; failingM and
\* failingT are the connections whose send raises in the metrics broadcast
\* and in the batch broadcast
handleTickEffect(tick, failingM, failingT) ==
  LET window == Prepend(tick, mcTicks, maxTicks)
      passM == broadcast(MetricsMessage(window), clients, failingM)
      live == IF Subscribed("metrics") THEN passM.after ELSE clients
      buffer == Append(tickBuffer, tick)
      passT == broadcast(BatchedTickMessage(buffer), live, failingT)
  IN /\ Subscribed("tick")
     /\ \/ gwReceived < MaxGwTicks
        \/ gwReceived >= maxRecentTicks /\ gwReceived < maxRecentTicks + MaxOverflow
     /\ gwReceived' = tick
     /\ recentTicks' = Prepend(tick, recentTicks, maxRecentTicks)
     /\ mcTicks' = window
     /\ IF BatchFull(buffer)
        THEN \* flushTickBuffer()
             /\ tickBuffer' = <<>>
             /\ batchTimeout' = FALSE
             /\ batchTimers' = IF batchTimeout /\ batchTimers > 0 THEN batchTimers - 1
                                ELSE batchTimers
             /\ clients' = passT.after
             /\ sent' = [passes |-> (IF Subscribed("metrics") THEN <<passM>> ELSE <<>>) \o <<passT>>,
                         direct |-> <<>>]
        ELSE /\ tickBuffer' = buffer
             /\ batchTimeout' = TRUE
             /\ batchTimers' = TimersArmed(batchTimeout, batchTimers)
             /\ clients' = live
             /\ failingT = {}
             /\ sent' = [passes |-> IF Subscribed("metrics") THEN <<passM>> ELSE <<>>,
                         direct |-> <<>>]
     /\ pruned' = pruned \cup (Range(clients) \ Range(clients'))
     /\ UNCHANGED <<wss, clientIdCounter, sockets, listeners, lastEmit>>
     /\ UNCHANGED gwStopVars
handleTick(tick, failingM, failingT) ==
  /\ handleTickEffect(tick, failingM, failingT)
  /\ lastOp' = [name |-> "gwTick", result |-> "ok", events |-> <<Ev("metrics", "metrics")>>]

\* the batch timeout fires: flushTickBuffer()
batchTimerFires(failing) ==
  LET pass == broadcast(BatchedTickMessage(tickBuffer), clients, failing)
  IN /\ batchTimers > 0
     /\ IF Len(tickBuffer) = 0
        THEN /\ batchTimers' = batchTimers - 1
             /\ failing = {}
             /\ sent' = NothingSent
             /\ UNCHANGED <<tickBuffer, batchTimeout, clients, pruned>>
        ELSE /\ tickBuffer' = <<>>
             /\ batchTimeout' = FALSE
             /\ batchTimers' = batchTimers - 1
             /\ clients' = pass.after
             /\ pruned' = pruned \cup (Range(clients) \ Range(pass.after))
             /\ sent' = [passes |-> <<pass>>, direct |-> <<>>]
     /\ lastOp' = [name |-> "gwBatchTimer", result |-> "ok", events |-> <<>>]
     /\ UNCHANGED <<wss, clientIdCounter, sockets, recentTicks, mcTicks, gwReceived,
                    listeners, lastEmit>>
     /\ UNCHANGED gwStopVars

\* the listener of 'error' events: broadcast(createErrorMessage(...))
onBusErrorEffect(failing) ==
  LET pass == broadcast(ErrorMessage, clients, failing)
  IN /\ Subscribed("error")
     /\ clients' = pass.after
     /\ pruned' = pruned \cup (Range(clients) \ Range(pass.after))
     /\ sent' = [passes |-> <<pass>>, direct |-> <<>>]
     /\ UNCHANGED <<wss, clientIdCounter, sockets, recentTicks, mcTicks, tickBuffer,
                    batchTimeout, batchTimers, gwReceived, listeners, lastEmit>>
     /\ UNCHANGED gwStopVars
onBusError(failing) ==
  /\ onBusErrorEffect(failing)
  /\ lastOp' = [name |-> "gwBusError", result |-> "ok", events |-> <<>>]

\* what a client sends: text that is not JSON, null, and objects with and
\* without a member "type"
Req(type) == [ty |-> "obj", type |-> type]
ClientData ==
  {Garbage, JNull, Req(U), Req(S("request_snapshot")), Req(S("request_metrics")),
   Req(S("subscribe"))}

\* "typeof message === 'object' && message !== null && 'type' in message"
HasType(message) == message.ty = "obj" /\ message.type # U

\* sendSnapshot(clientId) / sendMetrics(clientId): the message sent, when
\* the id is in the live set and its socket is open
Reply(c, message) ==
  IF c \in Range(clients) /\ sockets[c] = "OPEN" THEN <<message>> ELSE <<>>

\* handleClientMessage(clientId, message): the messages it sends to c
handleClientMessage(c, message) ==
  IF ~HasType(message) THEN <<>>
  ELSE IF message.type = S("request_snapshot")
  THEN Reply(c, SnapshotMessage(NewestHundred(recentTicks)))
  ELSE IF message.type = S("request_metrics")
  THEN Reply(c, MetricsMessage(mcTicks))
  ELSE <<>>

\* ws.on('message') of connection c: JSON.parse and handleClientMessage
\* under try, the error message sent under catch; the next raising sends
\* to c raise
onMessage(c, data, raising) ==
  LET replies == IF data = Garbage THEN <<>> ELSE handleClientMessage(c, data)
      \* what the handler sends, each message after the first only when
      \* the send before it raised
      attempts == IF data = Garbage THEN <<ErrorMessage>>
                  ELSE IF replies = <<>> THEN <<>>
                  ELSE <<replies[1], ErrorMessage>>
  IN /\ sockets[c] = "OPEN"
     /\ raising <= Len(attempts)
     /\ sent' = [passes |-> <<>>,
                 direct |-> IF raising < Len(attempts) THEN wsSend(c, attempts[raising + 1])
                            ELSE <<>>]
     /\ lastOp' = [name |-> "gwMessage",
                   result |-> IF attempts # <<>> /\ raising = Len(attempts) THEN "threw" ELSE "ok",
                   events |-> <<>>, from |-> c, data |-> data, raising |-> raising]
     /\ UNCHANGED <<gwFields, gwReceived, pruned, gwStopVars, listeners, lastEmit>>

NeverClosed(state) == state

\* readyState after ws.close()
AfterClose(state) == IF state = "OPEN" THEN "CLOSING" ELSE state

\* stop(): flushTickBuffer(), the batch timeout cleared, every connection
\* of the live set closed, the live set cleared, the listener asked to
\* close; the promise is resolved at once when there is no listener
gatewayStopEffect(failing) ==
  LET pass == broadcast(BatchedTickMessage(tickBuffer), clients, failing)
      live == IF tickBuffer # <<>> THEN pass.after ELSE clients
  IN /\ tickBuffer # <<>> \/ failing = {}
     /\ stopPending < MaxStops
     /\ tickBuffer' = <<>>
     /\ batchTimeout' = FALSE
     /\ batchTimers' = IF batchTimeout /\ batchTimers > 0 THEN batchTimers - 1 ELSE batchTimers
     /\ sockets' = [c \in ClientIds |-> IF c \in Range(live) THEN AfterClose(sockets[c])
                                         ELSE sockets[c]]
     /\ clients' = <<>>
     /\ pruned' = pruned \cup (Range(clients) \ Range(live))
     /\ sent' = [passes |-> IF tickBuffer # <<>> THEN <<pass>> ELSE <<>>, direct |-> <<>>]
     /\ wssClosing' = wss
     /\ stopPending' = IF wss THEN stopPending + 1 ELSE stopPending
     /\ UNCHANGED <<wss, clientIdCounter, recentTicks, mcTicks, gwReceived, listeners, lastEmit>>
gatewayStop(failing) ==
  /\ gatewayStopEffect(failing)
  /\ lastOp' = [name |-> "gwStop", result |-> IF wss THEN "pending" ELSE "resolved",
                events |-> <<>>, failing |-> failing]

\* the callback of wss.close(): the listener has closed, which takes the
\* end of every connection; this.wss = null and resolve()
onListenerCloseEffect ==
  /\ wssClosing
  /\ \A c \in ClientIds : sockets[c] \notin {"OPEN", "CLOSING"}
  /\ wss' = FALSE
  /\ wssClosing' = FALSE
  /\ stopPending' = 0
  /\ sent' = NothingSent
  /\ UNCHANGED <<clients, clientIdCounter, sockets, recentTicks, mcTicks, tickBuffer,
                 batchTimeout, batchTimers, gwReceived, pruned, listeners, lastEmit>>
onListenerClose ==
  /\ onListenerCloseEffect
  /\ lastOp' = [name |-> "gwListenerClosed", result |-> "resolved", events |-> <<>>]

(***************************************************************************)
(* The arithmetic of JavaScript numbers (IEEE 754 binary64) as the metrics *)
(* calculator uses it, computed exactly.  A natural number is a sequence   *)
(* of limbs in base 2^15, least significant first and without leading      *)
(* zero limbs; a finite number is a sign, a 53-bit significand and a       *)
(* binary exponent.  Prices and their sums are far from the subnormal and  *)
(* the overflow range, which are left out.                                 *)
(***************************************************************************)
Base == 2 ^ 15
LimbBits == 15
Precision == 53

Limb(a, i) == IF i >= 1 /\ i <= Len(a) THEN a[i] ELSE 0

\* a without its leading zero limbs
BTrim(a) ==
  LET used == {i \in 1..Len(a) : a[i] # 0}
  IN IF used = {} THEN <<>> ELSE SubSeq(a, 1, CHOOSE i \in used : \A j \in used : j <= i)

\* 0 <= n < 2^31 as a natural number
BFromInt(n) == BTrim(<<n % Base, (n \div Base) % Base, n \div (Base * Base)>>)

\* a < 2^31 as an integer
BToInt(a) == Limb(a, 1) + Base * Limb(a, 2) + Base * Base * Limb(a, 3)

\* a + b; the carry into limb i comes from a limb below it that overflows
\* and passes through limbs that are full
BAdd(a, b) ==
  LET n == IF Len(a) > Len(b) THEN Len(a) ELSE Len(b)
      s == [i \in 1..(n + 1) |-> Limb(a, i) + Limb(b, i)]
      carry(i) == \E j \in 1..(i - 1) : s[j] >= Base /\ \A k \in (j + 1)..(i - 1) : s[k] = Base - 1
  IN BTrim([i \in 1..(n + 1) |-> (s[i] + (IF carry(i) THEN 1 ELSE 0)) % Base])

\* a - b for a >= b; the borrow from limb i is taken by a limb below it that
\* falls short and passes through limbs that are equal
BSub(a, b) ==
  LET borrow(i) == \E j \in 1..(i - 1) :
                     Limb(a, j) < Limb(b, j) /\ \A k \in (j + 1)..(i - 1) : Limb(a, k) = Limb(b, k)
  IN BTrim([i \in 1..Len(a) |->
              (Limb(a, i) - Limb(b, i) - (IF borrow(i) THEN 1 ELSE 0) + Base) % Base])

\* -1, 0 or 1 as a < b, a = b or a > b
BCmp(a, b) ==
  IF Len(a) # Len(b) THEN (IF Len(a) < Len(b) THEN 0 - 1 ELSE 1)
  ELSE IF a = b THEN 0
  ELSE LET i == CHOOSE i \in 1..Len(a) : a[i] # b[i] /\ \A j \in (i + 1)..Len(a) : a[j] = b[j]
       IN IF a[i] < b[i] THEN 0 - 1 ELSE 1

\* a * k for 0 <= k <= Base
BMulSmall(a, k) ==
  LET p == [i \in 1..Len(a) |-> a[i] * k]
  IN BAdd([i \in 1..Len(a) |-> p[i] % Base],
          [i \in 1..(Len(a) + 1) |-> IF i = 1 THEN 0 ELSE p[i - 1] \div Base])

\* a * b for a, b < 2^60: the products of the limbs, low and high halves
\* summed by position
BMul(a, b) ==
  LET P(i, j) == Limb(a, i) * Limb(b, j)
      W(k) == (P(1, k) % Base) + (P(2, k - 1) % Base) + (P(3, k - 2) % Base)
              + (P(4, k - 3) % Base) + (P(1, k - 1) \div Base) + (P(2, k - 2) \div Base)
              + (P(3, k - 3) \div Base) + (P(4, k - 4) \div Base)
  IN BAdd([k \in 1..8 |-> W(k) % Base],
          [k \in 1..9 |-> IF k = 1 THEN 0 ELSE W(k - 1) \div Base])

\* a * 2^n
BShl(a, n) ==
  LET q == n \div LimbBits
      f == 2 ^ (n % LimbBits)
  IN BTrim([i \in 1..(Len(a) + q + 1) |->
              ((Limb(a, i - q) * f) % Base) + ((Limb(a, i - q - 1) * f) \div Base)])

\* floor(a / 2^n)
BShr(a, n) ==
  LET q == n \div LimbBits
      f == 2 ^ (n % LimbBits)
  IN BTrim([i \in 1..(Len(a) - q) |->
              (Limb(a, i + q) \div f) + ((Limb(a, i + q + 1) % f) * (Base \div f))])

BitLenSmall(x) == CHOOSE k \in 1..LimbBits : 2 ^ (k - 1) <= x /\ x < 2 ^ k

BBitLen(a) == IF a = <<>> THEN 0 ELSE LimbBits * (Len(a) - 1) + BitLenSmall(a[Len(a)])

\* the largest d with b * d <= r, for r < b * Base and a leading limb of b
\* of LimbBits bits: at most two below the quotient of the leading limbs
QuotientDigit(r, b) ==
  LET n == Len(b)
      est == (Limb(r, n + 1) * Base + Limb(r, n)) \div b[n]
      top == IF est < Base THEN est ELSE Base - 1
      fits == {d \in {top - 2, top - 1, top} : d >= 0 /\ BCmp(BMulSmall(b, d), r) <= 0}
  IN CHOOSE d \in fits : \A c \in fits : c <= d

\* long division of the limbs i..Len(a) of a by b, one quotient limb per
\* step; the leading Len(b) - 1 limbs of a are less than b
WithDigit(q, r, b, d) == [q |-> BTrim(<<d>> \o q), r |-> BSub(r, BMulSmall(b, d))]

\* one step of the long division: the quotient q and remainder r so far,
\* then the next limb of the dividend
DivideLimb(q, r, limb, b) ==
  IF r = <<>> /\ limb = 0 THEN [q |-> BTrim(<<0>> \o q), r |-> <<>>]
  ELSE WithDigit(q, BTrim(<<limb>> \o r), b, QuotientDigit(BTrim(<<limb>> \o r), b))

AfterLimb(prev, limb, b) == DivideLimb(prev.q, prev.r, limb, b)

\* long division of the limbs i..Len(a) of a by b, one quotient limb per
\* step; the leading Len(b) - 1 limbs of a are less than b
RECURSIVE BDivModFrom(_, _, _)
BDivModFrom(a, b, i) ==
  IF i > Len(a) - (Len(b) - 1) THEN [q |-> <<>>, r |-> BTrim(SubSeq(a, i, Len(a)))]
  ELSE AfterLimb(BDivModFrom(a, b, i + 1), a[i], b)

Inexact(d) == [q |-> d.q, inexact |-> d.r # <<>>]

BDivModScaled(a, b, s) == Inexact(BDivModFrom(BShl(a, s), BShl(b, s), 1))

\* floor(a / b), and whether a mod b is not 0, for b # 0: both are scaled
\* to give b a leading limb of LimbBits bits
BDivMod(a, b) == BDivModScaled(a, b, LimbBits - BitLenSmall(b[Len(b)]))

Zero == [neg |-> FALSE, m |-> <<>>, e |-> 0]

\* the number nearest to (n + d) * 2^e, 0 <= d < 1 and d > 0 iff sticky,
\* ties to the even significand; a sticky n has more than Precision bits
Renormalized(neg, q, e) ==
  IF BBitLen(q) > Precision THEN [neg |-> neg, m |-> BShr(q, 1), e |-> e + 1]
  ELSE [neg |-> neg, m |-> q, e |-> e]

\* q, or q + 1 when the part cut off compares as c against a half
RoundedUp(q, c, sticky) ==
  IF c > 0 \/ (c = 0 /\ (sticky \/ q[1] % 2 = 1)) THEN BAdd(q, <<1>>) ELSE q

RoundedBy(neg, n, e, sticky, s, q) ==
  Renormalized(neg, RoundedUp(q, BCmp(BSub(n, BShl(q, s)), BShl(<<1>>, s - 1)), sticky), e + s)

RoundedFrom(neg, n, e, sticky, len) ==
  IF len <= Precision
  THEN [neg |-> neg, m |-> BShl(n, Precision - len), e |-> e - (Precision - len)]
  ELSE RoundedBy(neg, n, e, sticky, len - Precision, BShr(n, len - Precision))

RoundToNumber(neg, n, e, sticky) ==
  IF n = <<>> THEN Zero ELSE RoundedFrom(neg, n, e, sticky, BBitLen(n))

\* an integer -2^31 < n < 2^31 as a number
FromInt(n) == RoundToNumber(n < 0, BFromInt(IF n < 0 THEN 0 - n ELSE n), 0, FALSE)

FNeg(a) == IF a.m = <<>> THEN a ELSE [a EXCEPT !.neg = ~a.neg]

\* a + b
\* the sum of x and y, or the difference of the larger and the smaller,
\* with the sign of the larger
Combined(aneg, bneg, x, y, c, e) ==
  RoundToNumber(IF c >= 0 THEN aneg ELSE bneg,
                IF aneg = bneg THEN BAdd(x, y) ELSE IF c >= 0 THEN BSub(x, y) ELSE BSub(y, x),
                e, FALSE)

Aligned(aneg, bneg, x, y, e) == Combined(aneg, bneg, x, y, BCmp(x, y), e)

AddAt(a, b, e) == Aligned(a.neg, b.neg, BShl(a.m, a.e - e), BShl(b.m, b.e - e), e)

FAdd(a, b) ==
  IF a.m = <<>> THEN b
  ELSE IF b.m = <<>> THEN a
  ELSE AddAt(a, b, IF a.e < b.e THEN a.e ELSE b.e)

\* a - b
FSub(a, b) == FAdd(a, FNeg(b))

\* a * b
FMul(a, b) ==
  IF a.m = <<>> \/ b.m = <<>> THEN Zero
  ELSE RoundToNumber(a.neg # b.neg, BMul(a.m, b.m), a.e + b.e, FALSE)

\* a / b for b # 0
Quotient(neg, d, e) == RoundToNumber(neg, d.q, e, d.inexact)

FDiv(a, b) ==
  IF a.m = <<>> THEN Zero
  ELSE Quotient(a.neg # b.neg, BDivMod(BShl(a.m, Precision + 3), b.m),
                a.e - (Precision + 3) - b.e)

\* -1, 0 or 1 as a < b, a = b or a > b
Sign(d) == IF d.m = <<>> THEN 0 ELSE IF d.neg THEN 0 - 1 ELSE 1

FCmp(a, b) == Sign(FSub(a, b))

\* Math.round(a): floor(a + 1/2), for |a| < 2^31
\* whole + 1/2 or more goes up; -(whole + 1/2) goes up as well, to -whole
HalfUp(neg, whole, c) ==
  IF neg THEN 0 - (whole + (IF c > 0 THEN 1 ELSE 0)) ELSE whole + (IF c >= 0 THEN 1 ELSE 0)

\* m * 2^-s, with whole = floor(m * 2^-s)
RoundHalfUp(neg, m, s, whole) ==
  HalfUp(neg, BToInt(whole), BCmp(BMulSmall(BSub(m, BShl(whole, s)), 2), BShl(<<1>>, s)))

MathRound(a) ==
  IF a.m = <<>> THEN 0
  ELSE IF a.e >= 0 THEN HalfUp(a.neg, BToInt(BShl(a.m, a.e)), 0 - 1)
  ELSE RoundHalfUp(a.neg, a.m, 0 - a.e, BShr(a.m, 0 - a.e))

(***************************************************************************)
(* Metrics calculator (server/src/metrics/stats.ts).                       *)
(***************************************************************************)
\* parseFloat of a decimal text with three digits after the point, given
\* in thousandths ("1.355" is 1355)
parseFloat(thousandths) == FDiv(FromInt(thousandths), FromInt(1000))

\* the ticks a feed delivers to the calculator
Closes == {0, 1000, 1355, 2000}
MetricsTicks == {[close |-> parseFloat(c), volume |-> 3] : c \in Closes}

\* Math.round(x * 100) / 100, held as the integer Math.round(x * 100)
RoundToCents(x) == MathRound(FMul(x, FromInt(100)))

Larger(x, y) == IF FCmp(x, y) >= 0 THEN x ELSE y
Smaller(x, y) == IF FCmp(x, y) <= 0 THEN x ELSE y

\* one step of the reduce calls over the window and of Math.max / Math.min
Accumulate(acc, tick) ==
  [count |-> acc.count + 1,
   sum |-> FAdd(acc.sum, tick.close),
   volume |-> acc.volume + tick.volume,
   highest |-> Larger(acc.highest, tick.close),
   lowest |-> Smaller(acc.lowest, tick.close)]

\* the steps over the ticks after the first acc.count up to window[upTo],
\* in the order of their indices: up to the middle, then the rest
RECURSIVE Reduce(_, _, _)
Reduce(window, acc, upTo) ==
  IF acc.count >= upTo THEN acc
  ELSE IF acc.count + 1 = upTo THEN Accumulate(acc, window[upTo])
  ELSE Reduce(window, Reduce(window, acc, (acc.count + upTo) \div 2), upTo)

\* getEmptyMetrics()
getEmptyMetrics ==
  [totalTicks |-> 0, totalVolume |-> 0, averagePrice |-> 0, highestPrice |-> 0,
   lowestPrice |-> 0, priceChange |-> 0, priceChangePercent |-> 0]

MiddleIndex(window) == (Len(window) + 1) \div 2

\* this.ticks.length - 1, counted from 1
LastIndex(window) == Len(window)

\* (priceChange / firstPrice) * 100, or 0 for a firstPrice that is not positive
PercentOf(priceChange, firstPrice) ==
  IF FCmp(firstPrice, Zero) > 0
  THEN FMul(FDiv(priceChange, firstPrice), FromInt(100))
  ELSE Zero

\* the snapshot calculateMetrics() returns, without lastUpdate; the price
\* fields in cents
Snapshot(length, acc, averagePrice, firstPrice, priceChange) ==
  [totalTicks |-> length,
   totalVolume |-> acc.volume,
   averagePrice |-> RoundToCents(averagePrice),
   highestPrice |-> RoundToCents(acc.highest),
   lowestPrice |-> RoundToCents(acc.lowest),
   priceChange |-> RoundToCents(priceChange),
   priceChangePercent |-> RoundToCents(PercentOf(priceChange, firstPrice))]

\* the snapshot of a window that is not empty, acc the result of the
\* reduce calls and of Math.max / Math.min over it
Calculated(window, acc, firstPrice, lastPrice) ==
  Snapshot(Len(window), acc, FDiv(acc.sum, FromInt(Len(window))), firstPrice,
           FSub(lastPrice, firstPrice))

\* calculateMetrics() over this.ticks = window
calculateMetrics(window) ==
  IF Len(window) = 0 THEN getEmptyMetrics
  ELSE Calculated(window,
                  Reduce(window, [count |-> 0, sum |-> Zero, volume |-> 0,
                                  highest |-> window[1].close, lowest |-> window[1].close],
                         Len(window)),
                  window[LastIndex(window)].close, window[1].close)

NoMetrics == [totalTicks |-> 0 - 1]

MetricsInit ==
  /\ mcTicks = <<>>
  /\ metrics = NoMetrics
  /\ added = 0

\* addTick(tick)
addTick(tick) ==
  /\ mcTicks' = Prepend(tick, mcTicks, maxTicks)
  /\ metrics' = calculateMetrics(mcTicks')
  /\ added' = added + 1
  /\ lastOp' = [name |-> "addTick", result |-> "ok", events |-> <<>>, tick |-> tick]

\* a call of calculateMetrics() from outside; previous is the snapshot
\* the caller held before it
calculate ==
  /\ metrics' = calculateMetrics(mcTicks)
  /\ lastOp' = [name |-> "calculateMetrics", result |-> "ok", events |-> <<>>,
                previous |-> metrics]
  /\ UNCHANGED <<mcTicks, added>>

KeepNewest(window) == IF window = <<>> THEN <<>> ELSE <<window[1]>>

\* this.ticks = []
Cleared(window) == <<>>

\* reset()
reset ==
  /\ mcTicks' = Cleared(mcTicks)
  /\ added' = 0
  /\ lastOp' = [name |-> "reset", result |-> "ok", events |-> <<>>]
  /\ UNCHANGED metrics

(***************************************************************************)
(* Client hook (src/hooks/useWebSocket.ts): the connection, its reconnects *)
(* and the tick list.  The hook's state and refs are the fields of a       *)
(* record on which connect(), disconnect() and the effect's cleanup work.  *)
(* The onerror handler, which sets the error state only, is left out.      *)
(***************************************************************************)
maxReconnectAttempts == 5
maxClientTicks == 1000
SocketIds == 1..MaxSockets
NoSocket == 0
NoTimer == "null"
NoError == "null"
MaxAttemptsReached == "Max reconnection attempts reached"
NoWebSocket == [readyState |-> "NONE", enabled |-> FALSE]

ClientInit ==
  /\ hookPhase = "new"
  /\ enabled = TRUE
  /\ isMountedRef = TRUE
  /\ wsRef = NoSocket
  /\ webSockets = [i \in SocketIds |-> NoWebSocket]
  /\ reconnectTimeoutRef = NoTimer
  /\ reconnectTimers = 0
  /\ reconnectAttempts = 0
  /\ hookError = NoError
  /\ isConnected = FALSE
  /\ clientTicks = <<>>
  /\ feedReceived = <<>>

\* the refs and the state of the hook; full: a step needs more sockets or
\* timeouts than the model holds
Hook ==
  [isMountedRef |-> isMountedRef, wsRef |-> wsRef, webSockets |-> webSockets,
   reconnectTimeoutRef |-> reconnectTimeoutRef, reconnectTimers |-> reconnectTimers,
   reconnectAttempts |-> reconnectAttempts, error |-> hookError, isConnected |-> isConnected,
   full |-> FALSE]

SetHook(h) ==
  /\ isMountedRef' = h.isMountedRef
  /\ wsRef' = h.wsRef
  /\ webSockets' = h.webSockets
  /\ reconnectTimeoutRef' = h.reconnectTimeoutRef
  /\ reconnectTimers' = h.reconnectTimers
  /\ reconnectAttempts' = h.reconnectAttempts
  /\ hookError' = h.error
  /\ isConnected' = h.isConnected

\* the sockets that are not closed, and the place of the next socket
Alive(h) == {i \in SocketIds : h.webSockets[i].readyState # "NONE"}
Free(h) == CHOOSE i \in SocketIds : i \notin Alive(h) /\ \A j \in SocketIds \ Alive(h) : i <= j

\* "if (reconnectTimeoutRef.current) { clearTimeout(...); ... = null }"
ClearReconnect(h) ==
  [h EXCEPT !.reconnectTimers = IF h.reconnectTimeoutRef = "pending" THEN @ - 1 ELSE @,
            !.reconnectTimeoutRef = NoTimer]

\* wsRef.current is OPEN or CONNECTING
Connecting(h) ==
  h.wsRef # NoSocket /\ h.webSockets[h.wsRef].readyState \in {"OPEN", "CONNECTING"}

\* connect() of a render with the argument e
connect(h, e) ==
  IF ~h.isMountedRef \/ Connecting(h) THEN h
  ELSE IF Alive(h) = SocketIds THEN [h EXCEPT !.full = TRUE]
  ELSE [ClearReconnect(h) EXCEPT !.webSockets[Free(h)] =
                                    [readyState |-> "CONNECTING", enabled |-> e],
                                 !.wsRef = Free(h)]

\* ws.close() when the socket is open, and the reference dropped
CloseAndForget(h) ==
  IF h.wsRef = NoSocket THEN h
  ELSE [h EXCEPT !.webSockets[h.wsRef].readyState = AfterClose(@), !.wsRef = NoSocket]

\* disconnect()
disconnect(h) == [CloseAndForget(ClearReconnect(h)) EXCEPT !.isConnected = FALSE]

\* the cleanup of the effect
cleanup(h) == CloseAndForget(ClearReconnect([h EXCEPT !.isMountedRef = FALSE]))

\* the effects of a render with the argument e: connectRef.current is the
\* connect of this render, and the hook connects when e holds
effect(h, e) ==
  IF e THEN connect([h EXCEPT !.isMountedRef = TRUE], e)
  ELSE [h EXCEPT !.isMountedRef = TRUE]

\* ws.onopen of socket i
onopen(h, i) ==
  IF h.isMountedRef
  THEN [h EXCEPT !.webSockets[i].readyState = "OPEN", !.isConnected = TRUE,
                 !.error = NoError, !.reconnectAttempts = 0]
  ELSE [h EXCEPT !.webSockets[i].readyState = "CLOSING"]

\* "isMountedRef.current && enabled && reconnectAttempts.current < maxReconnectAttempts"
Schedules(h, i) ==
  h.isMountedRef /\ h.webSockets[i].enabled /\ h.reconnectAttempts < maxReconnectAttempts

\* ws.onclose of socket i, after which no handler of the socket runs
onclose(h, i) ==
  LET c == [h EXCEPT !.webSockets[i] = NoWebSocket,
                     !.isConnected = IF h.isMountedRef THEN FALSE ELSE @,
                     !.wsRef = NoSocket]
  IN IF Schedules(h, i)
     THEN [c EXCEPT !.reconnectAttempts = @ + 1, !.reconnectTimeoutRef = "pending",
                    !.reconnectTimers = @ + 1, !.full = h.reconnectTimers >= MaxTimers]
     ELSE IF ~h.webSockets[i].enabled THEN [c EXCEPT !.reconnectAttempts = 0]
     ELSE IF h.isMountedRef /\ h.reconnectAttempts >= maxReconnectAttempts
     THEN [c EXCEPT !.error = MaxAttemptsReached]
     ELSE c

\* a reconnect timeout fires, the one reconnectTimeoutRef holds (held) or
\* another one: connectRef.current() when mounted
reconnectFires(h, held) ==
  LET c == [h EXCEPT !.reconnectTimers = @ - 1,
                     !.reconnectTimeoutRef = IF held THEN "fired" ELSE @]
  IN IF c.isMountedRef THEN connect(c, enabled) ELSE c

ClientOp(name, h) ==
  [name |-> name, result |-> "ok", events |-> <<>>,
   opened |-> Alive(h) \ Alive(Hook) # {},
   scheduled |-> h.reconnectAttempts > reconnectAttempts,
   attempts |-> reconnectAttempts]

\* one step of the hook, to the fields h
HookStep(name, h) ==
  /\ ~h.full
  /\ SetHook(h)
  /\ lastOp' = ClientOp(name, h)

\* ws.onmessage on the ticks state: a snapshot replaces the list,
\* "[...tickData, ...prev].slice(0, 1000)" for the ticks of a batch; the
\* batching gateway sends no single tick
onmessage(list, message) ==
  IF message.t = "s" THEN message.d
  ELSE IF message.t = "t"
  THEN SubSeq(message.d \o list, 1,
              IF Len(message.d) + Len(list) > maxClientTicks THEN maxClientTicks
              ELSE Len(message.d) + Len(list))
  ELSE list

mount(e) ==
  /\ hookPhase = "new"
  /\ hookPhase' = "mounted"
  /\ enabled' = e
  /\ HookStep("mount", effect(Hook, e))

\* a render with another argument: the cleanup, then the effects
rerender ==
  /\ hookPhase = "mounted"
  /\ enabled' = ~enabled
  /\ HookStep("rerender", effect(cleanup(Hook), ~enabled))
  /\ UNCHANGED hookPhase

unmount ==
  /\ hookPhase = "mounted"
  /\ hookPhase' = "unmounted"
  /\ HookStep("unmount", cleanup(Hook))
  /\ UNCHANGED enabled

\* the connect and disconnect the hook returns, called by the component
callConnect ==
  /\ hookPhase = "mounted"
  /\ HookStep("connect", connect(Hook, enabled))
  /\ UNCHANGED <<hookPhase, enabled>>

callDisconnect ==
  /\ hookPhase = "mounted"
  /\ HookStep("disconnect", disconnect(Hook))
  /\ UNCHANGED <<hookPhase, enabled>>

socketOpens(i) ==
  /\ webSockets[i].readyState = "CONNECTING"
  /\ HookStep("onopen", onopen(Hook, i))
  /\ UNCHANGED <<hookPhase, enabled>>

\* the close event of socket i: the connection failed or ended
socketClosed(i) ==
  /\ webSockets[i].readyState \in {"CONNECTING", "OPEN", "CLOSING"}
  /\ HookStep("onclose", onclose(Hook, i))
  /\ UNCHANGED <<hookPhase, enabled>>

reconnectTimer(held) ==
  /\ IF held THEN reconnectTimeoutRef = "pending"
     ELSE reconnectTimers > (IF reconnectTimeoutRef = "pending" THEN 1 ELSE 0)
  /\ HookStep("reconnectTimer", reconnectFires(Hook, held))
  /\ UNCHANGED <<hookPhase, enabled>>

(***************************************************************************)
(* Orchestrator (server/src/index.ts).                                     *)
(***************************************************************************)
ServerInit ==
  /\ isShuttingDown = FALSE
  /\ running = FALSE
  /\ exited = FALSE

\* what parseStockFile returns for the first stock file: no row, one row,
\* two rows out of date order
DataFiles ==
  {<<>>,
   <<[date |-> 1, close |-> 1]>>,
   <<[date |-> 2, close |-> 2], [date |-> 1, close |-> 1]>>}

\* the rest of start() once the file is read: loadData(symbol, rows), then
\* start({speedMultiplier, loop}) without date bounds, then
\* setupGracefulShutdown(); start() publishes 'error' when no row was
\* loaded, which the gateway broadcasts
loadAndStartReplay(rows, replayLoop, failing) ==
  /\ wss /\ ~running /\ ~exited
  /\ running' = TRUE
  /\ ticks' = sortTicksByDate(rows)
  /\ currentIndex' = 0
  /\ isPaused' = FALSE
  /\ published' = <<>>
  /\ IF Len(rows) = 0
     THEN /\ intervalId' = FALSE
          /\ timers' = TimersAfterClear
          /\ isPlaying' = FALSE
          /\ undisturbed' = FALSE
          /\ startedLoop' = FALSE
          /\ UNCHANGED <<speedMultiplier, loop>>
          /\ onBusErrorEffect(failing)
          /\ lastOp' = [name |-> "load", result |-> "rejected",
                        events |-> <<Ev("replay", "stopped"), Ev("error", "NO_DATA")>>]
     ELSE /\ speedMultiplier' = 1
          /\ loop' = replayLoop
          /\ isPlaying' = TRUE
          /\ intervalId' = TRUE
          /\ timers' = TimersAfterClear + 1
          /\ undisturbed' = TRUE
          /\ startedLoop' = replayLoop
          /\ failing = {}
          /\ sent' = NothingSent
          /\ UNCHANGED <<gwFields, gwReceived, pruned, gwStopVars, listeners, lastEmit>>
          /\ lastOp' = [name |-> "load", result |-> "started",
                        events |-> <<Ev("replay", "stopped"), Ev("replay", "started")>>]
  /\ UNCHANGED <<isShuttingDown, exited>>

\* the replay timer fires while the gateway listens: playNextTick(), and
\* handleTick(tick) in the gateway for the tick it publishes
timerWithGateway(failingM, failingT) ==
  /\ ~exited
  /\ playNextTickEffect
  /\ IF AtEnd(currentIndex, ticks) /\ ~loop
     THEN /\ failingM = {} /\ failingT = {}
          /\ sent' = NothingSent
          /\ UNCHANGED <<gwFields, gwReceived, pruned, gwStopVars, listeners, lastEmit>>
     ELSE handleTickEffect(gwReceived + 1, failingM, failingT)
  /\ lastOp' = playNextTickOutcome
  /\ UNCHANGED serverVars

\* shutdown(signal): nothing when a shutdown is under way; else
\* dataReplay.stop(), then wsGateway.stop(), whose promise is awaited
shutdown(failing) ==
  /\ running /\ ~exited
  /\ IF isShuttingDown
     THEN /\ failing = {}
          /\ lastOp' = [name |-> "shutdown", result |-> "noop", events |-> <<>>,
                        failing |-> failing]
          /\ sent' = NothingSent
          /\ UNCHANGED <<replayFields, replayGhost, gwFields, gwReceived, pruned, gwStopVars,
                         listeners, lastEmit, serverVars>>
     ELSE /\ isShuttingDown' = TRUE
          /\ stopEffect
          /\ gatewayStopEffect(failing)
          /\ lastOp' = [name |-> "shutdown", result |-> "pending",
                        events |-> <<Ev("replay", "stopped")>>, failing |-> failing]
          /\ UNCHANGED <<running, exited>>

\* the promise of wsGateway.stop() resolves: process.exit(0)
exit ==
  /\ isShuttingDown /\ ~exited
  /\ onListenerCloseEffect
  /\ exited' = TRUE
  /\ lastOp' = [name |-> "exit", result |-> "ok", events |-> <<>>]
  /\ UNCHANGED <<replayFields, replayGhost, isShuttingDown, running>>

(***************************************************************************)
(* Specifications.                                                         *)
(***************************************************************************)
NoOp == [name |-> "init", result |-> "ok", events |-> <<>>]

\* the bus alone, with any subscribers
InitBus ==
  BusInit /\ ReplayInit /\ CodecInit /\ GatewayInit /\ MetricsInit /\ ServerInit /\ ClientInit /\ lastOp = NoOp
BusOn == \E k \in BusKinds, h \in Handler : on(k, h) /\ UNCHANGED <<replayFields, replayGhost, codecVars, gwVars, metricsVars, serverVars, clientVars>>
BusOff == \E k \in BusKinds, h \in Handler : off(k, h) /\ UNCHANGED <<replayFields, replayGhost, codecVars, gwVars, metricsVars, serverVars, clientVars>>
BusRemoveAll == \E k \in BusKinds : removeAllListeners(k) /\ UNCHANGED <<replayFields, replayGhost, codecVars, gwVars, metricsVars, serverVars, clientVars>>
BusPublish == \E k \in BusKinds, p \in Payloads : Publish(k, p) /\ UNCHANGED <<replayFields, replayGhost, codecVars, gwVars, metricsVars, serverVars, clientVars>>
NextBus == BusOn \/ BusOff \/ BusRemoveAll \/ BusPublish
SpecBus == InitBus /\ [][NextBus]_vars

\* the replay engine; the listeners of 'tick' and 'replay' return normally,
\* as the gateway's do; those of 'error' are any
Returning == [id |-> 1, raises |-> FALSE]
ErrorListeners == {<<>>, <<Returning>>, <<[id |-> 1, raises |-> TRUE]>>}
InitReplay ==
  /\ \E ls \in ErrorListeners :
       listeners = [k \in Kinds |-> IF k = "error" THEN ls ELSE <<Returning>>]
  /\ lastEmit = NoEmit
  /\ ReplayInit
  /\ CodecInit
  /\ GatewayInit
  /\ MetricsInit
  /\ ServerInit /\ ClientInit
  /\ lastOp = NoOp
ReplayLoad == \E rows \in Rows : loadData(rows) /\ UNCHANGED <<busVars, codecVars, gwVars, metricsVars, serverVars, clientVars>>
ReplayStart == \E cfg \in ReplayConfig : start(cfg) /\ UNCHANGED <<busVars, codecVars, gwVars, metricsVars, serverVars, clientVars>>
ReplayTimer == playNextTick /\ UNCHANGED <<busVars, codecVars, gwVars, metricsVars, serverVars, clientVars>>
ReplayPause == pause /\ UNCHANGED <<busVars, codecVars, gwVars, metricsVars, serverVars, clientVars>>
ReplayResume == resume /\ UNCHANGED <<busVars, codecVars, gwVars, metricsVars, serverVars, clientVars>>
ReplayStop == stop /\ UNCHANGED <<busVars, codecVars, gwVars, metricsVars, serverVars, clientVars>>
ReplaySeek == \E i \in (0 - 1)..(MaxLen + 1) : seekTo(i) /\ UNCHANGED <<busVars, codecVars, gwVars, metricsVars, serverVars, clientVars>>
NextReplay ==
  ReplayLoad \/ ReplayStart \/ ReplayTimer \/ ReplayPause \/ ReplayResume \/ ReplayStop \/ ReplaySeek
SpecReplay == InitReplay /\ [][NextReplay]_vars

\* the codec: one message at a time is encoded or injected, then decoded
InitCodec ==
  BusInit /\ ReplayInit /\ CodecInit /\ GatewayInit /\ MetricsInit /\ ServerInit /\ ClientInit /\ lastOp = NoOp
nonCodecVars == <<busVars, replayFields, replayGhost, gwVars, metricsVars, serverVars, clientVars>>
CodecEncodeTick == \E t \in CodecTicks : EncodeTick(t) /\ UNCHANGED nonCodecVars
CodecEncodeBatch == \E ts \in SeqsUpTo(BatchTicks, MaxBatch) \ {<<>>} : EncodeBatch(ts) /\ UNCHANGED nonCodecVars
CodecInject == \E m \in RawMessages : Inject(m) /\ UNCHANGED nonCodecVars
CodecDecode == Decode /\ UNCHANGED nonCodecVars
CodecNext == NextMessage /\ UNCHANGED nonCodecVars
NextCodec == CodecEncodeTick \/ CodecEncodeBatch \/ CodecInject \/ CodecDecode \/ CodecNext
SpecCodec == InitCodec /\ [][NextCodec]_vars

\* the gateway: connections come and go while tick and error events arrive,
\* clients send messages and stop() is called; it begins as constructed or
\* with a full recent-tick buffer

\* the gateway as n tick events leave it, n a multiple of batchSize, when
\* it was started before them and no connection was accepted: the ticks
\* n, ..., 1 in the recent-tick buffer and in the metrics window, no batch
\* pending
After(n) ==
  /\ listeners = [k \in Kinds |-> IF k \in {"tick", "metrics", "error"}
                                    THEN <<GatewayHandler>> ELSE <<>>]
  /\ lastEmit = NoEmit
  /\ wss = TRUE
  /\ clients = <<>>
  /\ clientIdCounter = 0
  /\ sockets = [c \in ClientIds |-> "NONE"]
  /\ recentTicks = [i \in 1..n |-> n + 1 - i]
  /\ mcTicks = [i \in 1..n |-> n + 1 - i]
  /\ tickBuffer = <<>>
  /\ batchTimeout = FALSE
  /\ batchTimers = 0
  /\ gwReceived = n
  /\ pruned = {}
  /\ sent = NothingSent
  /\ wssClosing = FALSE
  /\ stopPending = 0
InitGateway ==
  /\ ReplayInit /\ CodecInit /\ ServerInit /\ ClientInit /\ lastOp = NoOp
  /\ metrics = NoMetrics /\ added = 0
  /\ \E n \in ReceivedBefore :
       IF n = 0 THEN BusInit /\ GatewayInit /\ mcTicks = <<>> ELSE After(n)
nonGwVars == <<replayFields, replayGhost, codecVars, metricsVars, serverVars, clientVars>>
Failing == SUBSET ClientIds
\* the server starts its gateway once
GwStart == ~Subscribed("tick") /\ gatewayStart /\ UNCHANGED nonGwVars
GwConnect == handleConnection /\ UNCHANGED nonGwVars
GwSocketCloses == \E c \in ClientIds : socketCloses(c) /\ UNCHANGED nonGwVars
GwOnClose == \E c \in ClientIds : onClose(c) /\ UNCHANGED nonGwVars
GwTick ==
  \E failingM \in Failing, failingT \in Failing :
    /\ failingM \subseteq {c \in Range(clients) : sockets[c] = "OPEN"}
    /\ failingT \subseteq {c \in Range(clients) : sockets[c] = "OPEN"} \ failingM
    /\ handleTick(gwReceived + 1, failingM, failingT)
    /\ UNCHANGED nonGwVars
GwBatchTimer ==
  \E failing \in Failing :
    /\ failing \subseteq {c \in Range(clients) : sockets[c] = "OPEN"}
    /\ batchTimerFires(failing)
    /\ UNCHANGED nonGwVars
GwBusError ==
  \E failing \in Failing :
    /\ failing \subseteq {c \in Range(clients) : sockets[c] = "OPEN"}
    /\ onBusError(failing)
    /\ UNCHANGED nonGwVars
GwMessage ==
  \E c \in ClientIds, data \in ClientData, raising \in 0..1 :
    onMessage(c, data, raising) /\ UNCHANGED nonGwVars
GwStop ==
  \E failing \in Failing :
    /\ failing \subseteq {c \in Range(clients) : sockets[c] = "OPEN"}
    /\ gatewayStop(failing)
    /\ UNCHANGED nonGwVars
GwListenerClosed == onListenerClose /\ UNCHANGED nonGwVars
NextGateway ==
  \/ GwStart \/ GwConnect \/ GwSocketCloses \/ GwOnClose \/ GwTick \/ GwBatchTimer \/ GwBusError
  \/ GwMessage \/ GwStop \/ GwListenerClosed
SpecGateway == InitGateway /\ [][NextGateway]_vars

\* everything as constructed
InitServer ==
  BusInit /\ ReplayInit /\ CodecInit /\ GatewayInit /\ MetricsInit /\ ServerInit /\ ClientInit /\ lastOp = NoOp

\* the gateway's listeners of one kind on the bus
Registered(kind) == Cardinality({i \in 1..Len(listeners[kind]) : listeners[kind][i] = GatewayHandler})

\* handleTick(tick) of a gateway without connections, on the fields g:
\* every 'metrics' listener of the gateway broadcasts the metrics message
handleTickAlone(g, tick) ==
  LET buffer == Append(g.tickBuffer, tick)
      window == Prepend(tick, g.mcTicks, maxTicks)
      full == BatchFull(buffer)
  IN [recentTicks |-> Prepend(tick, g.recentTicks, maxRecentTicks),
      mcTicks |-> window,
      tickBuffer |-> IF full THEN <<>> ELSE buffer,
      batchTimeout |-> ~full,
      batchTimers |-> IF full
                      THEN IF g.batchTimeout /\ g.batchTimers > 0 THEN g.batchTimers - 1
                           ELSE g.batchTimers
                      ELSE TimersArmed(g.batchTimeout, g.batchTimers),
      passes |-> g.passes
                 \o [i \in 1..Registered("metrics") |-> broadcast(MetricsMessage(window), <<>>, {})]
                 \o (IF full THEN <<broadcast(BatchedTickMessage(buffer), <<>>, {})>> ELSE <<>>)]

\* the 'tick' listeners of the gateway, called one after the other
RECURSIVE handleTicks(_, _, _)
handleTicks(g, tick, k) ==
  IF k = 0 THEN g ELSE handleTicks(handleTickAlone(g, tick), tick, k - 1)

\* eventBus.emit('tick', tick) while the gateway has no connection: the
\* tick is named after the calls of handleTick before it
emitTick(tick) ==
  LET g == handleTicks([recentTicks |-> recentTicks, mcTicks |-> mcTicks,
                        tickBuffer |-> tickBuffer, batchTimeout |-> batchTimeout,
                        batchTimers |-> batchTimers, passes |-> <<>>],
                       tick, Registered("tick"))
  IN /\ Subscribed("tick")
     /\ clients = <<>>
     /\ gwReceived < MaxGwTicks
     /\ gwReceived' = gwReceived + Registered("tick")
     /\ recentTicks' = g.recentTicks
     /\ mcTicks' = g.mcTicks
     /\ tickBuffer' = g.tickBuffer
     /\ batchTimeout' = g.batchTimeout
     /\ batchTimers' = g.batchTimers
     /\ sent' = [passes |-> g.passes, direct |-> <<>>]
     /\ lastOp' = [name |-> "emitTick", result |-> "ok", events |-> <<>>,
                   handled |-> Registered("tick"), armed |-> g.batchTimers > batchTimers,
                   stopped |-> wssClosing \/ ~wss]
     /\ UNCHANGED <<wss, clients, clientIdCounter, sockets, pruned, listeners, lastEmit>>
     /\ UNCHANGED gwStopVars

\* a gateway that is started, stopped and started again, without
\* connections
RsStart == Registered("tick") < MaxStarts /\ gatewayStart /\ UNCHANGED nonGwVars
RsStop == gatewayStop({}) /\ UNCHANGED nonGwVars
RsEmitTick == emitTick(gwReceived + 1) /\ UNCHANGED nonGwVars
NextRestart == RsStart \/ RsStop \/ GwListenerClosed \/ RsEmitTick \/ GwBatchTimer
SpecRestart == InitServer /\ [][NextRestart]_vars

\* the client hook in a component that is mounted, rendered with either
\* argument and unmounted, while its sockets open and close
nonHookVars == <<busVars, replayFields, replayGhost, codecVars, gwVars, metricsVars, serverVars, feedVars>>
ClMount == \E e \in BOOLEAN : mount(e) /\ UNCHANGED nonHookVars
ClRerender == rerender /\ UNCHANGED nonHookVars
ClUnmount == unmount /\ UNCHANGED nonHookVars
ClConnect == callConnect /\ UNCHANGED nonHookVars
ClDisconnect == callDisconnect /\ UNCHANGED nonHookVars
ClSocketOpens == \E i \in SocketIds : socketOpens(i) /\ UNCHANGED nonHookVars
ClSocketClosed == \E i \in SocketIds : socketClosed(i) /\ UNCHANGED nonHookVars
ClReconnectTimer == \E held \in BOOLEAN : reconnectTimer(held) /\ UNCHANGED nonHookVars
NextClient ==
  \/ ClMount \/ ClRerender \/ ClUnmount \/ ClConnect \/ ClDisconnect \/ ClSocketOpens
  \/ ClSocketClosed \/ ClReconnectTimer
SpecClient == InitServer /\ [][NextClient]_vars

\* the messages of the step st that reach connection c, in the order sent
RECURSIVE PassesTo(_, _)
PassesTo(c, passes) ==
  IF passes = <<>> THEN <<>>
  ELSE (IF \E i \in 1..Len(Head(passes).delivered) : Head(passes).delivered[i] = c
        THEN <<Head(passes).message>> ELSE <<>>) \o PassesTo(c, Tail(passes))
RECURSIVE DirectTo(_, _)
DirectTo(c, direct) ==
  IF direct = <<>> THEN <<>>
  ELSE (IF Head(direct).to = c THEN <<Head(direct).message>> ELSE <<>>) \o DirectTo(c, Tail(direct))
MessagesTo(c, st) == PassesTo(c, st.passes) \o DirectTo(c, st.direct)

\* the ticks state after the messages, and the ticks the messages carry
RECURSIVE TicksAfter(_, _)
TicksAfter(list, messages) ==
  IF messages = <<>> THEN list
  ELSE TicksAfter(onmessage(list, Head(messages)), Tail(messages))
RECURSIVE TicksIn(_)
TicksIn(messages) ==
  IF messages = <<>> THEN <<>>
  ELSE (IF Head(messages).t \in {"s", "t"} THEN Head(messages).d ELSE <<>>) \o TicksIn(Tail(messages))

\* the gateway with the client hook as its first connection: what a step
\* sends to connection 1 goes through the hook's onmessage
Deliver ==
  /\ feedReceived' = feedReceived \o TicksIn(MessagesTo(1, sent'))
  /\ clientTicks' = IF isMountedRef THEN TicksAfter(clientTicks, MessagesTo(1, sent'))
                    ELSE clientTicks
nonGwFeedVars == <<replayFields, replayGhost, codecVars, metricsVars, serverVars, hookVars>>
FeedStart == ~Subscribed("tick") /\ gatewayStart /\ Deliver /\ UNCHANGED nonGwFeedVars
FeedConnect == handleConnection /\ Deliver /\ UNCHANGED nonGwFeedVars
FeedSocketCloses == \E c \in ClientIds : socketCloses(c) /\ Deliver /\ UNCHANGED nonGwFeedVars
\* every send succeeds
FeedTick ==
  /\ gwReceived < MaxFeedTicks
  /\ handleTick(gwReceived + 1, {}, {})
  /\ Deliver
  /\ UNCHANGED nonGwFeedVars
FeedBatchTimer == batchTimerFires({}) /\ Deliver /\ UNCHANGED nonGwFeedVars
NextFeed == FeedStart \/ FeedConnect \/ FeedSocketCloses \/ FeedTick \/ FeedBatchTimer
SpecFeed == InitServer /\ [][NextFeed]_vars

\* the batching of the gateway under an event loop that runs every armed
\* timeout: a batch timeout that stays pending fires
NextBatching == GwStart \/ GwConnect \/ GwSocketCloses \/ GwTick \/ GwBatchTimer
SpecBatching == InitServer /\ [][NextBatching]_vars /\ WF_vars(GwBatchTimer)

\* the server: the gateway is started, the file is loaded and replayed,
\* connections come and go, a signal shuts the server down; client requests
\* change no state of the gateway and are left out
OpenLive == {c \in Range(clients) : sockets[c] = "OPEN"}
ServerStart == ~running /\ ~exited /\ GwStart
ServerLoad ==
  \E rows \in DataFiles, replayLoop \in BOOLEAN, failing \in Failing :
    /\ failing \subseteq OpenLive
    /\ loadAndStartReplay(rows, replayLoop, failing)
    /\ UNCHANGED <<codecVars, metricsVars, clientVars>>
ServerConnect == ~exited /\ GwConnect
ServerSocketCloses == ~exited /\ GwSocketCloses
ServerOnClose == ~exited /\ GwOnClose
ServerTimer ==
  \E failingM \in Failing, failingT \in Failing :
    /\ failingM \subseteq OpenLive
    /\ failingT \subseteq OpenLive \ failingM
    /\ timerWithGateway(failingM, failingT)
    /\ UNCHANGED <<codecVars, metricsVars, clientVars>>
ServerBatchTimer == ~exited /\ GwBatchTimer
ServerShutdown ==
  \E failing \in Failing :
    /\ failing \subseteq OpenLive
    /\ shutdown(failing)
    /\ UNCHANGED <<codecVars, metricsVars, clientVars>>
ServerExit == exit /\ UNCHANGED <<codecVars, metricsVars, clientVars>>
NextServer ==
  \/ ServerStart \/ ServerLoad \/ ServerConnect \/ ServerSocketCloses \/ ServerOnClose
  \/ ServerTimer \/ ServerBatchTimer \/ ServerShutdown \/ ServerExit
SpecServer == InitServer /\ [][NextServer]_vars

\* a window one tick short of its capacity, as maxTicks - 1 calls of addTick
\* leave it: the oldest tick at 2.000, the one before it at 1.355, every
\* later one at 0
AlmostFull ==
  [i \in 1..(maxTicks - 1) |->
     [close |-> parseFloat(IF i = maxTicks - 1 THEN 2000 ELSE IF i = maxTicks - 2 THEN 1355 ELSE 0),
      volume |-> 3]]
InitialWindows == {<<>>, AlmostFull}
InitMetrics ==
  /\ BusInit
  /\ ReplayInit
  /\ CodecInit
  /\ GatewayInit
  /\ mcTicks \in InitialWindows
  /\ added = Len(mcTicks)
  /\ metrics = IF Len(mcTicks) = 0 THEN NoMetrics ELSE calculateMetrics(mcTicks)
  /\ wssClosing = FALSE
  /\ stopPending = 0
  /\ ServerInit /\ ClientInit
  /\ lastOp = NoOp
nonMetricsVars == <<busVars, replayFields, replayGhost, codecVars, wss, clients, clientIdCounter,
                    sockets, recentTicks, tickBuffer, batchTimeout, batchTimers, gwGhost, gwStopVars,
                    serverVars, clientVars>>
MetricsAddTick ==
  /\ added < MaxWindow \/ (added >= maxTicks - 1 /\ added < maxTicks + MaxOverflow)
  /\ \E tick \in MetricsTicks : addTick(tick)
  /\ UNCHANGED nonMetricsVars
MetricsCalculate == calculate /\ UNCHANGED nonMetricsVars
MetricsReset == reset /\ UNCHANGED nonMetricsVars
NextMetrics == MetricsAddTick \/ MetricsCalculate \/ MetricsReset
SpecMetrics == InitMetrics /\ [][NextMetrics]_vars

(***************************************************************************)
(* Properties of the event bus.                                            *)
(***************************************************************************)
\* C1: when a publish reaches several subscribers and one of them raises,
\* every subscriber registered for that kind still receives the payload and
\* the publisher sees no exception.
C1_BusIsolatesFailingHandler ==
  (/\ lastEmit.kind # "none"
   /\ Len(lastEmit.offered) >= 2
   /\ \E i \in 1..Len(lastEmit.offered) : lastEmit.offered[i].raises)
    => (lastEmit.received = lastEmit.offered /\ ~lastEmit.threw)

(***************************************************************************)
(* Properties of the replay engine.                                        *)
(***************************************************************************)
IsTickStep == lastOp'.name = "timer" /\ lastOp'.events[1].kind = "tick"

C2_Log ==
  (undisturbed /\ ~startedLoop) =>
    /\ Len(published) <= Len(ticks) + 1
    /\ \A k \in 1..Len(published) :
         IF k <= Len(ticks)
         THEN published[k].kind = "tick" /\ published[k].idx = k - 1 /\ published[k].tick = ticks[k]
         ELSE published[k].kind = "replay"
    /\ Len(published) = Len(ticks) + 1 => (timers = 0 /\ ~isPlaying)

C2_Step ==
  /\ (lastOp'.name = "timer" /\ undisturbed) => Len(published') = Len(published) + 1
  /\ IsTickStep => (isPlaying /\ ~isPaused)
  /\ (~isPlaying /\ isPlaying') => (lastOp'.name = "start" /\ lastOp'.result \in {"started", "threw"})

\* C2: a replay started with loop=false over n >= 1 ticks publishes, one per
\* timer firing, the ticks at indices 0..n-1 in order, then one 'stopped'
\* status; after that no timer is left, and a tick is only ever published
\* while playing, which only start() can set.
C2_NonLoopingReplayStopsAfterLastTick == [](C2_Log) /\ [][C2_Step]_vars

C2_Witness ==
  /\ undisturbed /\ ~startedLoop /\ Len(ticks) = 3
  /\ Len(published) = 4 /\ published[4].kind = "replay" /\ published[3].idx = 2

\* C3: a replay started with loop=true over n >= 1 ticks publishes at its
\* k-th timer firing the tick at index (k-1) mod n, and stays playing.
C3_LoopingReplayWrapsAround ==
  (undisturbed /\ startedLoop) =>
    /\ \A k \in 1..Len(published) :
         /\ published[k].kind = "tick"
         /\ published[k].idx = (k - 1) % Len(ticks)
         /\ published[k].tick = ticks[((k - 1) % Len(ticks)) + 1]
    /\ isPlaying
    /\ isPaused \/ timers = 1

C3_Witness ==
  /\ undisturbed /\ startedLoop /\ Len(ticks) = 3 /\ Len(published) = 7
  /\ [k \in 1..7 |-> published[k].idx] = <<0, 1, 2, 0, 1, 2, 0>>

StartPublishedError ==
  lastOp.name = "start" /\ Len(lastOp.events) = 1 /\ lastOp.events[1].kind = "error"

\* C9: a start() that finds no data, or no tick in the date range, publishes
\* one error event and returns normally whichever listeners are subscribed.
C9_RejectedStartReturnsNormally ==
  StartPublishedError => lastOp.result = "rejected"

\* C10: a rejected start() leaves dataset, cursor, flags, speed multiplier,
\* loop flag and timer as they were.
C10_RejectedStartChangesNothing ==
  [][StartPublishedError' => UNCHANGED replayFields]_vars

\* neither playing nor paused, no timer
Stopped == ~isPlaying /\ ~isPaused /\ ~intervalId

\* C11: stop() of an engine that is already stopped, or was never started,
\* changes no replay field and publishes no event.
C11_StopIsIdempotent ==
  [][(Stopped /\ lastOp'.name = "stop") =>
       (UNCHANGED replayFields /\ lastOp'.events = <<>>)]_vars

C12_Step ==
  /\ lastOp'.name = "seekTo" =>
       /\ currentIndex' = IF lastOp'.index >= 0 /\ lastOp'.index < Len(ticks)
                          THEN lastOp'.index ELSE currentIndex
       /\ UNCHANGED <<ticks, intervalId, isPlaying, isPaused, speedMultiplier, loop, timers>>
       /\ lastOp'.events = <<>>
       /\ lastOp'.result = "ok"
  /\ (lastOp.name = "seekTo" /\ lastOp.index >= 0 /\ lastOp.index < Len(ticks) /\ IsTickStep) =>
       lastOp'.events[1].idx = lastOp.index

\* C12: seekTo(index) with index < 0 or index >= dataset length changes no
\* replay field and publishes nothing; with an index in range it moves the
\* cursor there and nothing else, and the tick published next is the one at
\* that index.
C12_SeekMovesCursorOnlyInRange == [][C12_Step]_vars

C12_Witness ==
  /\ lastOp.name = "seekTo" /\ lastOp.index = 2 /\ Len(ticks) = 3
  /\ currentIndex = 2 /\ isPlaying /\ ~isPaused /\ timers = 1

\* position of row i of a file in the stable ascending order by date
StableRank(rows, i) ==
  Cardinality({j \in 1..Len(rows) : rows[j].date < rows[i].date})
  + Cardinality({j \in 1..i : rows[j].date = rows[i].date})

\* C17: after load(symbol, rows) the dataset holds exactly the given rows in
\* ascending date order, rows of one date in their file order; the cursor
\* is 0 and the engine is neither playing nor paused.
C17_LoadSortsStablyAndResets ==
  lastOp.name = "loadData" =>
    /\ Len(ticks) = Len(lastOp.rows)
    /\ \A i \in 1..Len(lastOp.rows) : ticks[StableRank(lastOp.rows, i)] = lastOp.rows[i]
    /\ \A i \in 1..(Len(ticks) - 1) : ticks[i].date <= ticks[i + 1].date
    /\ currentIndex = 0
    /\ Stopped
    /\ timers = 0

C17_Witness ==
  /\ lastOp.name = "loadData"
  /\ [i \in 1..Len(lastOp.rows) |-> lastOp.rows[i].date] = <<2, 1, 2>>
  /\ [i \in 1..Len(ticks) |-> ticks[i].date] = <<1, 2, 2>>
  /\ ticks[2] = lastOp.rows[1] /\ ticks[3] = lastOp.rows[3]

\* C18: start() of an engine that is playing and not paused changes no
\* replay field, creates no timer and publishes nothing, whatever the
\* configuration.
C18_StartWhilePlayingIsNoOp ==
  [][(isPlaying /\ ~isPaused /\ lastOp'.name = "start") =>
       (UNCHANGED replayFields /\ lastOp'.events = <<>>)]_vars

C18_Witness ==
  /\ lastOp.name = "start" /\ lastOp.result = "noop"
  /\ isPlaying /\ ~isPaused /\ timers = 1 /\ currentIndex = 2

C19_Frame ==
  /\ (lastOp'.name = "pause" /\ lastOp'.cursor # NoCursor) =>
       (UNCHANGED <<ticks, currentIndex, speedMultiplier, loop>> /\ lastOp'.cursor = currentIndex)
  /\ (lastOp'.name = "resume" /\ lastOp'.cursor # NoCursor) =>
       (UNCHANGED <<ticks, currentIndex, speedMultiplier, loop>> /\ lastOp'.cursor = currentIndex)
  /\ IsTickStep => ~isPaused

ResumedAfterPause == lastOp.name = "resume" /\ lastOp.cursor # NoCursor

\* C19 as stated: pause() then resume() on a playing engine keep dataset,
\* cursor, speed multiplier and loop flag, no tick is published while
\* paused, and the first tick after resume() is the one at the cursor held
\* at pause().
C19_ResumeContinuesAtCursor ==
  [][/\ C19_Frame
     /\ (ResumedAfterPause /\ IsTickStep) => lastOp'.events[1].idx = lastOp.cursor]_vars

\* C19 as the engine behaves: the same, except that a cursor held at the end
\* of the dataset of a looping replay continues with the tick at index 0.
C19_ResumeContinuesPlayback ==
  [][/\ C19_Frame
     /\ (ResumedAfterPause /\ IsTickStep) =>
          lastOp'.events[1].idx = IF lastOp.cursor < Len(ticks) THEN lastOp.cursor ELSE 0]_vars

C19_Witness ==
  /\ ResumedAfterPause /\ lastOp.result = "ok" /\ lastOp.cursor = Len(ticks)
  /\ Len(ticks) = 3 /\ loop /\ isPlaying /\ ~isPaused /\ timers = 1

\* C20: the paused flag is set only while the playing flag is set.
C20_PausedOnlyWhilePlaying == isPaused => isPlaying

\* C21: within one run of a replay (pause and resume included), the dates of
\* consecutively published ticks do not decrease, except where a looping
\* replay wraps around from the last tick to the tick at index 0, which is
\* the earliest of the dataset.
C21_DatesAscendWithinARun ==
  undisturbed =>
    \A k \in 1..(Len(published) - 1) :
      (published[k].kind = "tick" /\ published[k + 1].kind = "tick") =>
        \/ published[k].tick.date <= published[k + 1].tick.date
        \/ /\ loop
           /\ published[k].idx = Len(ticks) - 1
           /\ published[k + 1].idx = 0
           /\ published[k + 1].tick = ticks[1]
           /\ \A i \in 1..Len(ticks) : ticks[1].date <= ticks[i].date

\* a looping run over dates 1, 2, 2 that has wrapped around once
C21_Witness ==
  /\ undisturbed /\ loop
  /\ [i \in 1..Len(ticks) |-> ticks[i].date] = <<1, 2, 2>>
  /\ Len(published) = 5
  /\ [k \in 1..5 |-> published[k].tick.date] = <<1, 2, 2, 1, 2>>

C22_Cancelled == ~isPlaying => (timers = 0 /\ ~intervalId)

C22_Step ==
  /\ lastOp'.name \in {"stop", "loadData"} =>
       (timers' = 0 /\ ~intervalId' /\ ~isPlaying' /\ ~isPaused')
  /\ IsTickStep => (isPlaying /\ timers > 0)
  /\ (~isPlaying /\ isPlaying') => (lastOp'.name = "start" /\ lastOp'.result = "started")
  /\ timers' > timers =>
       \/ lastOp'.name = "start" /\ lastOp'.result = "started"
       \/ lastOp'.name = "resume" /\ isPlaying
  /\ (~isPlaying /\ lastOp'.name = "resume") =>
       (UNCHANGED replayFields /\ lastOp'.events = <<>>)

\* C22: stop() and loadData() leave no replay timer and the engine not
\* playing; no tick is published while the engine is not playing, which
\* only a successful start() ends; resume() of an engine that is not
\* playing publishes nothing and starts no timer.
C22_StopCancelsTimer == [](C22_Cancelled) /\ [][C22_Step]_vars

\* resume() of an engine stopped in the middle of its dataset
C22_Witness ==
  /\ lastOp.name = "resume" /\ lastOp.result = "noop"
  /\ ~isPlaying /\ ~isPaused /\ timers = 0
  /\ Len(ticks) = 3 /\ currentIndex = 2

\* C29: at most one replay timer exists, and one exists exactly when the
\* engine is playing and not paused.
C29_OneTimerIffPlayingUnpaused ==
  /\ timers <= 1
  /\ (timers = 1) = (isPlaying /\ ~isPaused)
  /\ intervalId = (timers = 1)

\* start() issued while paused in the middle of a dataset
C29_Witness ==
  /\ lastOp.name = "start" /\ lastOp.result = "started" /\ lastOp.wasPaused
  /\ timers = 1 /\ isPlaying /\ ~isPaused

\* C30: the cursor is within 0..dataset length, and every tick published is
\* the element of the loaded dataset at the index it was read from.
C30_CursorAndTicksInDataset ==
  /\ currentIndex >= 0 /\ currentIndex <= Len(ticks)
  /\ (lastOp.name = "timer" /\ lastOp.events[1].kind = "tick") =>
       (lastOp.events[1].idx >= 0 /\ lastOp.events[1].idx < Len(ticks))
  /\ undisturbed =>
       \A k \in 1..Len(published) :
         published[k].kind = "tick" =>
           /\ published[k].idx >= 0 /\ published[k].idx < Len(ticks)
           /\ published[k].tick = ticks[published[k].idx + 1]

\* a looping run over a dataset filtered down to the two rows of date 2,
\* wrapped around twice
C30_Witness ==
  /\ undisturbed /\ loop /\ Len(ticks) = 2 /\ ticks[1].date = 2 /\ ticks[1].close = 2
  /\ Len(published) = 5 /\ published[5].idx = 0 /\ currentIndex = 1

(***************************************************************************)
(* Properties of the metrics calculator.                                   *)
(***************************************************************************)
\* metrics is the snapshot of the window as it is now
Fresh == lastOp.name \in {"addTick", "calculateMetrics"}

\* C13: the snapshot of a non-empty window has
\* lowestPrice <= averagePrice <= highestPrice.
C13_AverageBetweenLowestAndHighest ==
  metrics.totalTicks > 0 =>
    /\ metrics.lowestPrice <= metrics.averagePrice
    /\ metrics.averagePrice <= metrics.highestPrice

AllZero(snapshot) ==
  /\ snapshot.totalTicks = 0 /\ snapshot.totalVolume = 0 /\ snapshot.averagePrice = 0
  /\ snapshot.highestPrice = 0 /\ snapshot.lowestPrice = 0
  /\ snapshot.priceChange = 0 /\ snapshot.priceChangePercent = 0

C14_Step ==
  /\ lastOp'.name = "calculateMetrics" =>
       /\ mcTicks' = mcTicks
       /\ lastOp'.result = "ok"
       /\ mcTicks = <<>> => AllZero(metrics')
  /\ lastOp'.name = "reset" => mcTicks' = <<>>

\* C14: reset() leaves the window empty; calculateMetrics() over an empty
\* window returns normally a snapshot of zeros in every field, and never
\* changes the window.
C14_EmptyWindowGivesZeroSnapshot == [][C14_Step]_vars

\* the zero snapshot taken after a reset that followed two addTick calls
C14_Witness ==
  /\ lastOp.name = "calculateMetrics" /\ lastOp.result = "ok"
  /\ lastOp.previous.totalTicks = 2
  /\ mcTicks = <<>> /\ AllZero(metrics)

Min(a, b) == IF a < b THEN a ELSE b

C15_Window ==
  /\ Len(mcTicks) = Min(added, maxTicks)
  /\ Fresh => metrics.totalTicks = Len(mcTicks)

C15_Step ==
  lastOp'.name = "addTick" =>
    /\ Len(mcTicks') = Min(Len(mcTicks) + 1, maxTicks)
    /\ mcTicks'[1] = lastOp'.tick
    /\ \A i \in 2..Len(mcTicks') : mcTicks'[i] = mcTicks[i - 1]

\* C15: addTick puts the tick first and moves every tick held one place
\* back, dropping the last one only from a window of maxTicks ticks; the
\* window holds min(ticks added since the last reset, maxTicks) ticks and
\* the snapshot's totalTicks is that number.
C15_WindowIsNewestFirstAndBounded == [](C15_Window) /\ [][C15_Step]_vars

\* one tick beyond the capacity: the tick at 2.000 has left the window
C15_Witness ==
  /\ lastOp.name = "addTick" /\ added = maxTicks + 1
  /\ Len(mcTicks) = maxTicks /\ metrics.totalTicks = maxTicks
  /\ mcTicks[1] = lastOp.tick
  /\ mcTicks[maxTicks].close = parseFloat(1355)

\* the decimal text of a close, in thousandths
Thousandths(close) == MathRound(FMul(close, FromInt(1000)))

Abs(n) == IF n < 0 THEN 0 - n ELSE n

\* the newest close minus the oldest and the oldest close, in thousandths
Change == Thousandths(mcTicks[1].close) - Thousandths(mcTicks[Len(mcTicks)].close)
Oldest == Thousandths(mcTicks[Len(mcTicks)].close)

\* C16 as stated: priceChange is the newest close minus the oldest one and
\* priceChangePercent is that change relative to the oldest close, 0 when
\* the oldest close is 0.
C16_ChangeIsNewestMinusOldest ==
  (Fresh /\ mcTicks # <<>>) =>
    /\ 10 * metrics.priceChange = Change
    /\ IF Oldest = 0 THEN metrics.priceChangePercent = 0
       ELSE metrics.priceChangePercent * Oldest = 10000 * Change

\* C16: priceChange is the newest close minus the oldest one rounded to two
\* decimals, so within 0.005 of it; priceChangePercent is 100 times that
\* change over the oldest close rounded to two decimals, and 0 when the
\* oldest close is 0.
C16_ChangeIsRoundedDifference ==
  (Fresh /\ mcTicks # <<>>) =>
    /\ Abs(10 * metrics.priceChange - Change) <= 5
    /\ IF Oldest = 0 THEN metrics.priceChangePercent = 0
       ELSE 2 * Abs(metrics.priceChangePercent * Oldest - 10000 * Change) <= Oldest

\* 1.355 after 1.000: a change of 0.355 reported as 0.36, 35.5 percent
C16_Witness ==
  /\ Fresh /\ Len(mcTicks) = 2
  /\ mcTicks[1].close = parseFloat(1355) /\ mcTicks[2].close = parseFloat(1000)
  /\ metrics.priceChange = 36 /\ metrics.priceChangePercent = 3550

(***************************************************************************)
(* Properties of the codec.                                                *)
(***************************************************************************)
Prices == {"open", "high", "low", "close"}

\* r is t as the wire carries it: prices rounded to 3 decimals, no time
AsCarried(r, t) ==
  /\ r.symbol = t.symbol /\ r.date = t.date /\ r.time = U
  /\ r.volume = t.volume /\ r.openInt = t.openInt
  /\ \A f \in Prices : r[f].v % Milli = 0 /\ 2 * Abs(r[f].v - t[f].v) <= Milli

ExactOnWire(t) == t.time = U /\ \A f \in Prices : t[f].v % Milli = 0

SingleDecoded == decoded # NotDecoded /\ source.kind = "single"
BatchDecoded == decoded # NotDecoded /\ source.kind = "batch" /\ Len(source.ticks) >= 1

\* C6 as stated: decoding the encoding of any valid tick yields a tick equal
\* to the original.
C6_RoundTripIsIdentity ==
  (SingleDecoded /\ ValidTick(source.ticks[1])) =>
    /\ decoded.server.type = "tick" /\ decoded.server.data = source.ticks
    /\ decoded.client.type = "tick" /\ decoded.client.data = source.ticks

\* C6 amended: decoding the encoding of a valid tick yields the tick with
\* the same symbol, date, volume and open interest (present or absent), each
\* price rounded to 3 decimals and no intraday time; the result equals the
\* original when the tick has no time and its prices have at most 3 decimals.
C6_RoundTripUpToRounding ==
  (SingleDecoded /\ ValidTick(source.ticks[1])) =>
    \A r \in {decoded.server, decoded.client} :
      /\ r.type = "tick" /\ Len(r.data) = 1
      /\ AsCarried(r.data[1], source.ticks[1])
      /\ ExactOnWire(source.ticks[1]) => r.data = source.ticks

C6_Witness ==
  /\ SingleDecoded /\ ValidTick(source.ticks[1])
  /\ source.ticks[1].openInt # U /\ source.ticks[1].time # U
  /\ source.ticks[1].open.v % Milli # 0
  /\ decoded.server.data[1].openInt = source.ticks[1].openInt
  /\ decoded.server.data # source.ticks

\* C7: the encoding of one tick decodes to a single tick, never a list; the
\* encoding of a batch of k >= 1 ticks decodes to a list of k ticks in the
\* same order.
C7_SingleAndBatchAreToldApart ==
  /\ SingleDecoded =>
       \A r \in {decoded.server, decoded.client} :
         r.type = "tick" /\ r.single /\ Len(r.data) = 1
  /\ BatchDecoded =>
       \A r \in {decoded.server, decoded.client} :
         /\ r.type = "tick" /\ ~r.single /\ Len(r.data) = Len(source.ticks)
         /\ \A i \in 1..Len(source.ticks) :
              ValidTick(source.ticks[i]) => AsCarried(r.data[i], source.ticks[i])

C7_Witness ==
  /\ BatchDecoded /\ Len(source.ticks) = 1 /\ ValidTick(source.ticks[1])
  /\ ~decoded.server.single /\ Len(decoded.server.data) = 1

TickArity(a) == a.ty = "arr" /\ Len(a.items) \in {7, 8}
TicksArity(d) == d.ty = "arr" /\ \A i \in 1..Len(d.items) : TickArity(d.items[i])

\* structurally invalid text: not JSON, not an object, no or unknown kind
\* tag, no payload, or a payload of the wrong arity
Malformed(w) ==
  \/ w = Garbage
  \/ w.ty # "obj"
  \/ w.t \notin {S("t"), S("m"), S("s"), S("e")}
  \/ w.d = U
  \/ w.t = S("t") /\ ~(TickArity(w.d) \/ (TicksArity(w.d) /\ Len(w.d.items) >= 1))
  \/ w.t = S("m") /\ ~(w.d.ty = "arr" /\ Len(w.d.items) = 8)
  \/ w.t = S("s") /\ ~TicksArity(w.d)

\* C8: both decoders return null for every malformed or structurally invalid
\* message.
C8_MalformedDecodesToNull ==
  (decoded # NotDecoded /\ source.kind = "raw" /\ Malformed(wire)) =>
    (decoded.server = Null /\ decoded.client = Null)

(***************************************************************************)
(* Properties of the gateway.                                              *)
(***************************************************************************)
\* the batched-tick messages among the broadcasts of the last step
TickBatches(st) ==
  LET RECURSIVE Pick(_)
      Pick(ps) == IF ps = <<>> THEN <<>>
                  ELSE IF Head(ps).message.t = "t" THEN <<Head(ps).message.d>> \o Pick(Tail(ps))
                       ELSE Pick(Tail(ps))
  IN Pick(st.passes)

C4_Shape ==
  /\ Len(tickBuffer) < 10
  /\ batchTimers = (IF tickBuffer = <<>> THEN 0 ELSE 1)
  /\ batchTimeout = (batchTimers = 1)

C4_Step ==
  /\ lastOp'.name = "gwTick" =>
       IF Len(tickBuffer) = 9
       THEN /\ TickBatches(sent') = <<Append(tickBuffer, gwReceived')>>
            /\ tickBuffer' = <<>>
            /\ batchTimers' = 0
       ELSE /\ TickBatches(sent') = <<>>
            /\ tickBuffer' = Append(tickBuffer, gwReceived')
            /\ batchTimers' = 1
  /\ lastOp'.name = "gwBatchTimer" =>
       /\ Len(tickBuffer) \in 1..9
       /\ TickBatches(sent') = <<tickBuffer>>
       /\ tickBuffer' = <<>>
       /\ batchTimers' = 0
  /\ lastOp'.name = "gwStop" =>
       /\ TickBatches(sent') = IF tickBuffer = <<>> THEN <<>> ELSE <<tickBuffer>>
       /\ tickBuffer' = <<>>
       /\ batchTimers' = 0
  /\ lastOp'.name \notin {"gwTick", "gwBatchTimer", "gwStop"} =>
       (TickBatches(sent') = <<>> /\ UNCHANGED <<tickBuffer, batchTimers>>)

\* C4: the pending ticks are broadcast as one batch when the 10th tick
\* arrives, which cancels the timer, or when the single timer armed at the
\* first buffered tick fires, with whatever 1..9 ticks are pending then; no
\* other step but stop() broadcasts ticks, and no timer is pending on an
\* empty batch.
C4_FlushOnSizeOrTimer == [](C4_Shape) /\ [][C4_Step]_vars

\* tick 1 left in a timer-driven batch, ticks 2..11 in one batch of 10
C4_Witness ==
  /\ lastOp.name = "gwTick"
  /\ TickBatches(sent) = <<[i \in 1..10 |-> i + 1]>>
  /\ tickBuffer = <<>> /\ batchTimers = 0

\* C5: in every broadcast pass the message reaches exactly the connections
\* of the live set that are open and whose send does not fail, whatever the
\* other connections do; the live set after the pass is exactly those
\* connections, and a connection removed by a pass is never live again.
C5_BroadcastIsBestEffort ==
  /\ \A i \in 1..Len(sent.passes) :
       LET pass == sent.passes[i]
           \* stop() closes the connections after its pass
           open == IF lastOp.name = "gwStop" THEN "CLOSING" ELSE "OPEN"
           ok == {c \in Range(pass.before) : sockets[c] = open /\ c \notin pass.failing}
       IN /\ Range(pass.delivered) = ok
          /\ Range(pass.after) = ok
          /\ i < Len(sent.passes) => sent.passes[i + 1].before = pass.after
          /\ i = Len(sent.passes) =>
               clients = IF lastOp.name = "gwStop" THEN <<>> ELSE pass.after
  /\ pruned \cap Range(clients) = {}

\* a pass over two connections in which the first one's send fails
C5_Witness ==
  /\ Len(sent.passes) = 1
  /\ Len(sent.passes[1].before) = 2
  /\ sent.passes[1].failing = {sent.passes[1].before[1]}
  /\ sent.passes[1].delivered = <<sent.passes[1].before[2]>>
  /\ clients = sent.passes[1].delivered

\* the k most recently received of the ticks 1..received, newest first
MostRecent(k, received) == [i \in 1..k |-> received - i + 1]

C23_Step ==
  /\ lastOp'.name = "gwConnect" =>
       /\ clientIdCounter' \notin Range(clients)
       /\ sent'.passes = <<>>
       /\ sent'.direct =
            IF recentTicks = <<>> THEN <<>>
            ELSE <<[to |-> clientIdCounter',
                    message |-> SnapshotMessage(MostRecent(Min(100, Len(recentTicks)), gwReceived))]>>
  /\ \A i \in 1..Len(sent'.passes) :
       Range(sent'.passes[i].delivered) \subseteq Range(clients)

\* C23: the step that accepts a connection sends, when the recent-tick
\* buffer is not empty, one snapshot with the min(100, buffer length) most
\* recently received ticks, newest first, to the new connection and nothing
\* to any other; with an empty buffer it sends nothing.  A broadcast reaches
\* only connections accepted in an earlier step, so none reaches the new
\* connection before its snapshot.
C23_SnapshotOnConnect == [][C23_Step]_vars

\* the second connection is accepted when 1001 ticks were received
C23_Witness ==
  /\ lastOp.name = "gwConnect"
  /\ clients = <<1, 2>>
  /\ gwReceived = 1001
  /\ Len(sent.direct) = 1
  /\ sent.direct[1].to = 2
  /\ Len(sent.direct[1].message.d) = 100
  /\ sent.direct[1].message.d[100] = 902

Requests == {Req(S("request_snapshot")), Req(S("request_metrics"))}

\* C24: after a request_snapshot or request_metrics message of an open
\* connection was handled, exactly one message went out, to the requester:
\* the snapshot of the last 100 ticks or the metrics of the window.
C24_RequestIsAnswered ==
  (lastOp.name = "gwMessage" /\ lastOp.data \in Requests /\ lastOp.raising = 0) =>
    /\ sent.passes = <<>>
    /\ sent.direct =
         <<[to |-> lastOp.from,
            message |-> IF lastOp.data = Req(S("request_snapshot"))
                        THEN SnapshotMessage(NewestHundred(recentTicks))
                        ELSE MetricsMessage(mcTicks)]>>

C25_Step ==
  /\ lastOp'.name = "gwStop" =>
       LET open == {c \in Range(clients) : sockets[c] = "OPEN"}
       IN /\ IF tickBuffer = <<>> THEN sent'.passes = <<>>
             ELSE /\ Len(sent'.passes) = 1
                  /\ sent'.passes[1].message = BatchedTickMessage(tickBuffer)
                  /\ Range(sent'.passes[1].delivered) = open \ lastOp'.failing
          /\ sent'.direct = <<>>
          /\ tickBuffer' = <<>>
          /\ ~batchTimeout'
          /\ batchTimers' = 0
          /\ clients' = <<>>
          /\ \A c \in Range(clients) \ lastOp'.failing : sockets'[c] # "OPEN"
          /\ \A c \in open \ lastOp'.failing : sockets'[c] = "CLOSING"
          /\ wss => (lastOp'.result = "pending" /\ stopPending' = stopPending + 1 /\ wss')
  /\ stopPending' < stopPending =>
       (lastOp'.name = "gwListenerClosed" /\ stopPending' = 0 /\ ~wss')

C26_Step ==
  (lastOp'.name = "gwMessage" /\ lastOp'.data = Garbage) =>
    /\ sent'.passes = <<>>
    /\ Len(sent'.direct) <= 1
    /\ \A i \in 1..Len(sent'.direct) :
         sent'.direct[i] = [to |-> lastOp'.from, message |-> ErrorMessage]
    /\ UNCHANGED <<clients, sockets, recentTicks, mcTicks, tickBuffer, batchTimeout,
                   batchTimers, gwReceived, pruned>>

\* C26: handling an inbound message that is not JSON sends at most one
\* message, an error message to the connection it came from, sends nothing
\* to any other connection and leaves the live set, the recent-tick buffer,
\* the metrics window and the pending batch as they were.
C26_MalformedMessageIsDropped == [][C26_Step]_vars

\* the first of two connections sends text that is not JSON while a batch
\* is pending
C26_Witness ==
  /\ lastOp.name = "gwMessage"
  /\ lastOp.data = Garbage
  /\ lastOp.from = 1
  /\ clients = <<1, 2>>
  /\ sockets[2] = "OPEN"
  /\ tickBuffer # <<>>
  /\ sent.direct = <<[to |-> 1, message |-> ErrorMessage]>>

C27_Buffer == recentTicks = MostRecent(Min(gwReceived, maxRecentTicks), gwReceived)

C27_Step ==
  lastOp'.name = "gwTick" =>
    /\ recentTicks'[1] = gwReceived'
    /\ \A i \in 2..Len(recentTicks') : recentTicks'[i] = recentTicks[i - 1]
    /\ Len(recentTicks') = Min(Len(recentTicks) + 1, maxRecentTicks)

\* C27: the recent-tick buffer holds the min(received, 1000) most recently
\* received ticks, newest first; a tick event puts its tick at the front,
\* keeps the others in order and drops only the oldest one at the cap.
C27_BufferIsNewestThousand == [](C27_Buffer) /\ [][C27_Step]_vars

\* tick 1 has left the full buffer
C27_Witness ==
  /\ gwReceived = 1001
  /\ Len(recentTicks) = 1000
  /\ recentTicks[1] = 1001
  /\ recentTicks[1000] = 2

(***************************************************************************)
(* Properties of the server.                                               *)
(***************************************************************************)
\* the ticks the last step broadcast in a batch
Flushed(st) == IF TickBatches(st) = <<>> THEN <<>> ELSE TickBatches(st)[1]

\* the pending batch holds the latest ticks received, in order; once the
\* shutdown has run no batch is pending and the replay timer is cancelled
C28_Held ==
  /\ tickBuffer = [i \in 1..Len(tickBuffer) |-> gwReceived - Len(tickBuffer) + i]
  /\ isShuttingDown => (tickBuffer = <<>> /\ timers = 0 /\ ~isPlaying /\ ~batchTimeout)

C28_Step ==
  \* a tick leaves the pending batch only in a batched-tick broadcast
  /\ Len(TickBatches(sent')) <= 1
  /\ Flushed(sent') \o tickBuffer' =
       tickBuffer \o (IF gwReceived' = gwReceived THEN <<>> ELSE <<gwReceived'>>)
  \* which reaches the live connections that are open then, a failed send apart
  /\ \A i \in 1..Len(sent'.passes) :
       sent'.passes[i].message.t = "t" =>
         Range(sent'.passes[i].delivered) =
           {c \in Range(sent'.passes[i].before) : sockets[c] = "OPEN"} \ sent'.passes[i].failing
  \* the shutdown stops the replay and flushes what is pending to the
  \* connections it then closes
  /\ (lastOp'.name = "shutdown" /\ lastOp'.result = "pending") =>
       /\ isShuttingDown' /\ timers' = 0 /\ ~isPlaying'
       /\ Flushed(sent') = tickBuffer
       /\ tickBuffer' = <<>>
       /\ \A c \in OpenLive \ lastOp'.failing :
            /\ sockets'[c] = "CLOSING"
            /\ tickBuffer # <<>> => c \in Range(sent'.passes[1].delivered)
  \* after it no tick is published and none is broadcast
  /\ isShuttingDown =>
       (~IsTickStep /\ gwReceived' = gwReceived /\ TickBatches(sent') = <<>>)

\* C28: the shutdown stops the replay engine and then the gateway in one
\* turn: the replay timer is cancelled before the gateway's final flush, no
\* tick is published afterwards, and every tick published before has left
\* the pending batch in a batched-tick broadcast, the last of them in the
\* flush of the shutdown, sent to the connections open then before they
\* are closed.
C28_ReplayStopsBeforeFinalFlush == [](C28_Held) /\ [][C28_Step]_vars

\* tick 1 went out on the batch timer; the shutdown flushes ticks 2 and 3 to
\* two open connections and closes them
C28_Witness ==
  /\ lastOp.name = "shutdown"
  /\ lastOp.result = "pending"
  /\ isShuttingDown
  /\ gwReceived = 3
  /\ Len(sent.passes) = 1
  /\ sent.passes[1].message = BatchedTickMessage(<<2, 3>>)
  /\ sent.passes[1].delivered = <<1, 2>>
  /\ sockets[1] = "CLOSING" /\ sockets[2] = "CLOSING"
  /\ timers = 0
  /\ loop

(***************************************************************************)
(* Properties of the gateway's batching and metrics.                       *)
(***************************************************************************)
C31_Pending ==
  tickBuffer = [i \in 1..Len(tickBuffer) |-> gwReceived - Len(tickBuffer) + i]

C31_Step ==
  /\ Len(TickBatches(sent')) <= 1
  /\ \A i \in 1..Len(TickBatches(sent')) : Len(TickBatches(sent')[i]) \in 1..10
  /\ Flushed(sent') \o tickBuffer' =
       tickBuffer \o (IF gwReceived' = gwReceived THEN <<>> ELSE <<gwReceived'>>)

\* C31: the pending batch holds the latest ticks received, in arrival
\* order, and every step moves ticks from the front of "pending batch, then
\* the tick just received" into at most one broadcast batch of 1 to 10
\* ticks; so the batches broadcast so far, in order, are the ticks received
\* before the pending ones, each once.
C31_BatchesAreThePrefix == [](C31_Pending) /\ [][C31_Step]_vars

\* ticks 1..10 went out as a full batch, tick 11 on the timer
C31_Witness ==
  /\ lastOp.name = "gwBatchTimer"
  /\ gwReceived = 11
  /\ Flushed(sent) = <<11>>
  /\ tickBuffer = <<>>

C32_Between ==
  /\ Len(tickBuffer) < 10
  /\ batchTimers <= 1
  /\ (batchTimers = 1) = (tickBuffer # <<>>)
  /\ batchTimeout = (tickBuffer # <<>>)

C32_Step ==
  /\ batchTimers' > batchTimers =>
       (lastOp'.name = "gwTick" /\ tickBuffer = <<>> /\ tickBuffer' = <<gwReceived'>>)
  /\ (lastOp'.name = "gwTick" /\ tickBuffer # <<>>) => batchTimers' <= batchTimers
  /\ lastOp'.name = "gwBatchTimer" => tickBuffer # <<>>

\* C32: between handlers fewer than 10 ticks are pending and a batch timer
\* is pending exactly when the pending batch is not empty; only a tick
\* arriving at an empty batch arms a timer, a tick arriving at a pending
\* batch arms none, and the timer never fires on an empty batch.
C32_TimerIffBatchPending == [](C32_Between) /\ [][C32_Step]_vars

\* the second tick of a batch arrives and the one timer stays
C32_Witness ==
  /\ lastOp.name = "gwTick"
  /\ tickBuffer = <<1, 2>>
  /\ batchTimers = 1
  /\ batchTimeout

C36_Step ==
  /\ lastOp'.name = "gwTick" =>
       /\ lastOp'.events = <<Ev("metrics", "metrics")>>
       /\ mcTicks'[1] = gwReceived'
       /\ Len(sent'.passes) >= 1
       /\ sent'.passes[1].message = [t |-> "m", d |-> <<Len(mcTicks')>>]
       /\ Range(sent'.passes[1].delivered) =
            {c \in Range(clients) : sockets[c] = "OPEN"} \ sent'.passes[1].failing
       /\ \A i \in 2..Len(sent'.passes) : sent'.passes[i].message.t = "t"
  /\ lastOp'.name # "gwTick" =>
       \A i \in 1..Len(sent'.passes) : sent'.passes[i].message.t # "m"

\* C36: handling a tick publishes one metrics event, and the first message
\* it broadcasts is the metrics message of the window that holds the tick,
\* sent to the open connections before any batched-tick message of that
\* step; no other step broadcasts a metrics message, so the batch that
\* carries a tick is broadcast after the tick's metrics.
C36_MetricsBeforeBatch == [][C36_Step]_vars

\* the tenth tick: its metrics, then the full batch, to two connections
C36_Witness ==
  /\ lastOp.name = "gwTick"
  /\ Len(sent.passes) = 2
  /\ sent.passes[1].message.t = "m"
  /\ sent.passes[1].delivered = <<1, 2>>
  /\ sent.passes[2].message.t = "t"
  /\ Len(sent.passes[2].message.d) = 10
  /\ sent.passes[2].delivered = <<1, 2>>

(***************************************************************************)
(* Further properties of the replay engine.                                *)
(***************************************************************************)
\* the ticks of ts dated within the bounds given, all of ts when none is
Within(ts, startDate, endDate) ==
  LET InRange(t) == /\ t.date >= (IF startDate = NoDate THEN Epoch ELSE startDate)
                    /\ t.date <= (IF endDate = NoDate THEN Now ELSE endDate)
  IN IF startDate = NoDate /\ endDate = NoDate THEN ts ELSE SelectSeq(ts, InRange)

C37_Step ==
  /\ (lastOp'.name = "start" /\ lastOp'.result = "started") =>
       ticks' = Within(ticks, lastOp'.startDate, lastOp'.endDate)
  /\ ticks' # ticks => lastOp'.name \in {"loadData", "start"}
  /\ lastOp'.name # "loadData" => Len(ticks') <= Len(ticks)

\* C37: a start() that succeeds leaves as the dataset the ticks of the
\* dataset it found that lie within its date bounds, all of them when it
\* has no bound; only loadData() and start() change the dataset, and no
\* step but loadData() makes it longer.
C37_StartKeepsFilteredSubset == [][C37_Step]_vars

\* of three loaded rows a start() from date 2 on has kept the last one
C37_Witness ==
  /\ lastOp.name = "start" /\ lastOp.result = "started"
  /\ lastOp.startDate = 2
  /\ Len(ticks) = 1
  /\ ticks[1].close = 3

\* C33: with batch timeouts that fire, a tick in the pending batch does not
\* stay there: it leaves the batch, which by C31 it does in a broadcast,
\* also when no further tick arrives.
C33_PendingTickIsBroadcast ==
  \A n \in 1..MaxGwTicks : (\E i \in 1..Len(tickBuffer) : tickBuffer[i] = n) ~> (\A i \in 1..Len(tickBuffer) : tickBuffer[i] # n)

\* the last tick the gateway receives leaves on the timer
C33_Witness ==
  /\ lastOp.name = "gwBatchTimer"
  /\ gwReceived = MaxGwTicks
  /\ Flushed(sent) = <<MaxGwTicks>>
  /\ tickBuffer = <<>>

\* C34: after any sequence of start() and stop() a tick event is handled by
\* the gateway once, and after a stop() with no start() after it a
\* published tick arms no batch timeout.
C34_TickHandledOnce ==
  lastOp.name = "emitTick" =>
    /\ lastOp.handled = 1
    /\ lastOp.stopped => ~lastOp.armed

(***************************************************************************)
(* Properties of the client hook.                                          *)
(***************************************************************************)
\* C39: the reconnection of the client is bounded: a close schedules a
\* reconnect only with fewer than 5 attempts since the last open, an open
\* resets the attempts, at most one reconnect timeout is pending, and a
\* reconnect timeout opens a socket only while the hook is mounted and
\* enabled.
C39_ReconnectBounded ==
  /\ reconnectTimers <= 1
  /\ (lastOp.name = "onclose" /\ lastOp.scheduled) => lastOp.attempts < maxReconnectAttempts
  /\ (lastOp.name = "onopen" /\ isMountedRef) => reconnectAttempts = 0
  /\ (lastOp.name = "reconnectTimer" /\ lastOp.opened) => (hookPhase = "mounted" /\ enabled)

(***************************************************************************)
(* Properties of the feed as a connection receives it.                     *)
(***************************************************************************)
\* C35: a connection is sent each tick at most once; a tick of the snapshot
\* sent when the connection was accepted is in no later batched-tick
\* message to it.
C35_TickSentAtMostOnce ==
  \A i \in 1..Len(feedReceived) : \A j \in 1..Len(feedReceived) :
    feedReceived[i] = feedReceived[j] => i = j

\* C38: the tick list of the client holds at most 1000 ticks, newest
\* first: no tick of the list was published before a tick after it.
C38_ClientTicksNewestFirst ==
  /\ Len(clientTicks) <= maxClientTicks
  /\ \A i \in 1..Len(clientTicks) : \A j \in 1..Len(clientTicks) :
       i < j => clientTicks[i] >= clientTicks[j]

====
